---- MODULE Spec2Model ----
(***************************************************************************)
(* A model of pyGascard: the framed-line serial transport (comm.py), the   *)
(* Gascard protocol engine (device.py) and the DAQ registry (daq.py).      *)
(***************************************************************************)
EXTENDS Integers, Sequences, FiniteSets, TLC

(***************************************************************************)
(* Bounds of the model.                                                    *)
(***************************************************************************)
\* the number of complete frames the device puts on the line
MaxFrames == 2
\* the number of transport calls made on one SerialDevice
MaxCalls == 2
\* the number of times a mode method asks the device again
MaxReads == 3

\* ticks one logging run may take
MaxTicks == 2

\* commands waiting in qin
MaxQueue == 2

\* periods of 1/rate the clock may advance
MaxTime == 3

\* calls of start_logging on one DAQLogging
MaxStarts == 2

(***************************************************************************)
(* Text and bytes.  Text is a sequence of one-character strings, a byte    *)
(* string is a sequence of ASCII codes; encode/decode map between them.    *)
(***************************************************************************)
Chars == {"N", "U", "X", "C", "E", "O", "1", "2", " ", "\r", "\n"}

Ord(ch) ==
    CASE ch = "N" -> 78 [] ch = "U" -> 85 [] ch = "X" -> 88 [] ch = "C" -> 67
      [] ch = "E" -> 69 [] ch = "O" -> 79 [] ch = "1" -> 49 [] ch = "2" -> 50
      [] ch = " " -> 32 [] ch = "\r" -> 13 [] ch = "\n" -> 10

Chr(b) == CHOOSE ch \in Chars : Ord(ch) = b

\* str.encode("ascii")
Encode(text) == [i \in 1..Len(text) |-> Ord(text[i])]

\* bytearray.decode("ascii")
Decode(bytes) == [i \in 1..Len(bytes) |-> Chr(bytes[i])]

\* self.eol = b"\r\n"
eol == <<13, 10>>

\* self.codes_list: the lead-in tokens of the mode replies
codes_list ==
    { Encode(<<"N", " ">>), Encode(<<"N", "1", " ">>), Encode(<<"C", "1", " ">>),
      Encode(<<"E", "1", " ">>), Encode(<<"O", "1", " ">>), Encode(<<"X", " ">>),
      Encode(<<"U", " ">>) }

\* bytes.startswith(prefix)
StartsWith(s, p) == Len(s) >= Len(p) /\ SubSeq(s, 1, Len(p)) = p

\* sub in s, for byte strings
Contains(s, sub) ==
    \E i \in 1..(Len(s) - Len(sub) + 1) : SubSeq(s, i, i + Len(sub) - 1) = sub

IsPrefix(p, s) == StartsWith(s, p)

(***************************************************************************)
(* The byte streams the device may produce: an optional truncated trailing *)
(* fragment of a frame with its terminator, then complete frames.          *)
(***************************************************************************)
FrameN == <<"N", " ", "1">>

FrameU == <<"U", " ", "2">>

Fragments == { <<"1">>, <<" ", "2">> }

\* the first n frames of the stream: Normal and UserInterface replies in turn
FramesOf(n) == [k \in 1..n |-> IF k % 2 = 1 THEN FrameN ELSE FrameU]

FrameSeqs == { FramesOf(n) : n \in 0..MaxFrames }

RECURSIVE WireOf(_)
WireOf(fs) ==
    IF fs = <<>> THEN <<>> ELSE Encode(Head(fs)) \o eol \o WireOf(Tail(fs))

StreamOf(frag, fs) ==
    (IF frag = <<>> THEN <<>> ELSE Encode(frag) \o eol) \o WireOf(fs)

Commands == { <<"N">>, <<"U">> }

VARIABLES
    wire,       \* bytes the device has still to put on the line
    rxbuf,      \* bytes waiting in the port's input buffer (in_waiting)
    txbuf,      \* bytes the program has sent to the device
    isOpen,     \* SerialDevice.isOpen
    portOpen,   \* the SerialStream is open (inside "async with self.ser_devc")
    pc,         \* where the running transport call stands
    op,         \* the running transport call
    cmd,        \* the command of the running _write_readline
    line,       \* the local bytearray of the running call
    nread,      \* bytes the running call has taken from the input buffer
    tx0,        \* Len(txbuf) when the running call began
    results,    \* the outcomes of the calls made so far, in order
    scen        \* the stream the device produces and the command the caller sends

tvars == <<wire, rxbuf, txbuf, isOpen, portOpen, pc, op, cmd, line, nread, tx0,
           results, scen>>

VARIABLES
    df_format,  \* Gascard._df_format
    dpc,        \* where the running Gascard call stands
    dcall,      \* the running Gascard call
    dreads,     \* the commands the running call has passed to _write_readline
    dsent,      \* the commands of the running call that went out on the line
    dlog        \* the outcome of the last Gascard call that ended

dvars == <<df_format, dpc, dcall, dreads, dsent, dlog>>

VARIABLES
    dev_list,   \* DAQ._dev_list: name -> Gascard handle, in insertion order
    health,     \* for each handle, whether its device answers or stays silent
    rcall,      \* the running DAQ.get / DAQ.set
    tasks,      \* the tasks of its task group
    ret_dict,   \* the ret_dict its tasks fill
    cancelled,  \* the task group's cancel scope is cancelled
    rlast       \* the outcome of the last DAQ call that ended

rvars == <<dev_list, health, rcall, tasks, ret_dict, cancelled, rlast>>

VARIABLES
    lpc,         \* where DAQLogging.logging stands
    write_async, \* the write_async argument of the running logging
    qin,         \* DAQLogging.qin, oldest command first
    qout,        \* DAQLogging.qout
    ldf,         \* the batch in DAQLogging.df: 0 the first get, n the get of tick n
    rows,        \* the batch the local rows was built from, 0 for the empty list
    reps,        \* ticks completed
    persisted,   \* the batches insert_data has written, in order
    ins,         \* the insert_data task of the running task group
    fet,         \* the update_dict_log task of the running task group
    lout,        \* how logging ended
    elapsed,     \* whole periods of 1/rate gone by on the monotonic clock since start
    offset,      \* wall clock minus monotonic clock, in periods
    warned,      \* "Process takes too long" warnings given
    nfetch,      \* fetches the ticks have begun
    others,      \* the logging threads of later start_logging calls
    calls_left   \* calls of start_logging still to come

svars == <<lpc, write_async, qin, qout, ldf, rows, reps, persisted, ins, fet, lout,
           elapsed, offset, warned, nfetch, others, calls_left>>

vars == <<tvars, dvars, rvars, svars>>

(***************************************************************************)
(* SerialDevice                                                            *)
(***************************************************************************)
\* _write: send_all(command.encode("ascii") + self.eol)
SendAll(buf, command) == buf \o Encode(command) \o eol

\* line 251 as it would be with the write awaited: the command goes out
AwaitedWrite(buf, command) == Append(buf, command)

\* _write_readline line 251: "self._write(command)" builds the coroutine and
\* drops it; it is never awaited, so nothing is sent
UnawaitedWrite(buf, command) == buf

\* line 186: line.startswith(tuple(self.codes_list))
Aligned(l) == \E code \in codes_list : StartsWith(l, code)

\* the first loop after "line += c": [line, pc]
Loop1Step(l) ==
    IF Aligned(l) THEN [line |-> l, next |-> "L2"]
    ELSE IF Contains(l, eol) THEN [line |-> <<>>, next |-> "L2"]
    ELSE [line |-> l, next |-> "L1"]

\* the head of the second loop, c not None: a full line ends the call
Loop2Done(l) == Contains(l, eol)

\* a variant of TimeoutInLoop1 that handles the first loop's timeout the way
\* the second loop does (line += None)
TimeoutInLoop1Raises(l) == [outcome |-> "TypeError", value |-> <<>>]

\* the outcome of a call whose wait in the first loop timed out: both loops
\* break and line.decode("ascii") is returned
TimeoutInLoop1(l) == [outcome |-> "return", value |-> Decode(l)]

\* the outcome of a call whose wait in the second loop timed out: c is None
\* and "line += c" raises TypeError
TimeoutInLoop2(l) == [outcome |-> "TypeError", value |-> <<>>]

\* line 209 / 287: return line.decode("ascii")
ReturnLine(l) == [outcome |-> "return", value |-> Decode(l)]

\* the bytes of the stream the transport has taken from the port when the
\* input buffer is empty
Position == Len(StreamOf(scen.frag, scen.frames)) - Len(wire)

\* the record kept of a finished call: what it did (outcome, value), whether
\* a wait timed out and with which bytes accumulated, what it sent, and how
\* many bytes it took from the port (nread) up to which stream position
Result(o, r, tmo, acc, n) ==
    [op |-> o, outcome |-> r.outcome, value |-> r.value, timeout |-> tmo,
     acc |-> acc, sent |-> SubSeq(txbuf, tx0 + 1, Len(txbuf)), cmd |-> cmd,
     nread |-> n, pos |-> Position]

TInit ==
    /\ \E frag \in Fragments \cup {<<>>}, fs \in FrameSeqs, command \in Commands :
          /\ scen = [frag |-> frag, frames |-> fs, command |-> command]
          /\ wire = StreamOf(frag, fs)
    /\ rxbuf = <<>>
    /\ txbuf = <<>>
    /\ isOpen = FALSE
    /\ portOpen = FALSE
    /\ pc = "idle"
    /\ op = "none"
    /\ cmd = <<>>
    /\ line = <<>>
    /\ nread = 0
    /\ tx0 = 0
    /\ results = <<>>

\* no transport call has been made
TIdle ==
    /\ scen = [frag |-> <<>>, frames |-> <<>>, command |-> <<"U">>]
    /\ wire = <<>>
    /\ rxbuf = <<>>
    /\ txbuf = <<>>
    /\ isOpen = FALSE
    /\ portOpen = FALSE
    /\ pc = "idle"
    /\ op = "none"
    /\ cmd = <<>>
    /\ line = <<>>
    /\ nread = 0
    /\ tx0 = 0
    /\ results = <<>>

\* the device puts its next byte into the input buffer of the open port
\* (what arrives between two calls is seen when the port is opened again)
Arrive ==
    /\ portOpen
    /\ wire # <<>>
    /\ rxbuf' = Append(rxbuf, Head(wire))
    /\ wire' = Tail(wire)
    /\ UNCHANGED <<txbuf, isOpen, portOpen, pc, op, cmd, line, nread, tx0, results,
                   scen>>

\* await _write(command), called on its own
Write ==
    /\ pc = "idle"
    /\ Len(results) < MaxCalls
    /\ LET command == scen.command IN
          /\ txbuf' = SendAll(txbuf, command)
          /\ results' = Append(results,
                [op |-> "write", outcome |-> "return", value |-> <<>>,
                 timeout |-> "none", acc |-> <<>>,
                 sent |-> SubSeq(txbuf', Len(txbuf) + 1, Len(txbuf')),
                 cmd |-> command, nread |-> 0, pos |-> Position - Len(rxbuf)])
    /\ UNCHANGED <<wire, rxbuf, isOpen, portOpen, pc, op, cmd, line, nread, tx0,
                   scen>>

\* _readline up to its first wait
CallReadline ==
    /\ pc = "idle"
    /\ Len(results) < MaxCalls
    /\ isOpen' = TRUE
    /\ portOpen' = TRUE
    /\ op' = "readline"
    /\ cmd' = <<>>
    /\ line' = <<>>
    /\ nread' = 0
    /\ tx0' = Len(txbuf)
    /\ pc' = "L1"
    /\ UNCHANGED <<wire, rxbuf, txbuf, results, scen>>

\* _write_readline up to its first wait
CallWriteReadline ==
    /\ pc = "idle"
    /\ Len(results) < MaxCalls
    /\ cmd' = scen.command
    /\ txbuf' = UnawaitedWrite(txbuf, scen.command)
    /\ isOpen' = TRUE
    /\ portOpen' = TRUE
    /\ op' = "write_readline"
    /\ line' = <<>>
    /\ nread' = 0
    /\ tx0' = Len(txbuf)
    /\ pc' = "L1"
    /\ UNCHANGED <<wire, rxbuf, results, scen>>

\* the call ends: the port is closed; isOpen is reset only on a return
Finish(r, tmo, acc, n) ==
    /\ results' = Append(results, Result(op, r, tmo, acc, n))
    /\ isOpen' = (IF r.outcome = "return" THEN FALSE ELSE isOpen)
    /\ portOpen' = FALSE
    /\ pc' = "idle"
    /\ op' = "none"
    /\ cmd' = <<>>
    /\ line' = <<>>
    /\ nread' = 0
    /\ tx0' = 0

\* first loop: _read() returns the bytes that are waiting
Loop1Read ==
    /\ pc = "L1"
    /\ rxbuf # <<>>
    /\ rxbuf' = <<>>
    /\ LET s == Loop1Step(line \o rxbuf)
           n == nread + Len(rxbuf)
       IN IF s.next = "L2" /\ Loop2Done(s.line)
          THEN Finish(ReturnLine(s.line), "none", <<>>, n)
          ELSE /\ line' = s.line
               /\ pc' = s.next
               /\ nread' = n
               /\ UNCHANGED <<results, isOpen, portOpen, op, cmd, tx0>>
    /\ UNCHANGED <<wire, txbuf, scen>>

\* the timeout of the wait: "late" while the device still has bytes to send,
\* "end" once the stream is exhausted
TimeoutKind == IF wire = <<>> THEN "end" ELSE "late"

\* first loop: nothing arrived within the timeout
Loop1Timeout ==
    /\ pc = "L1"
    /\ rxbuf = <<>>
    /\ Finish(TimeoutInLoop1(line), TimeoutKind, line, nread)
    /\ UNCHANGED <<wire, rxbuf, txbuf, scen>>

\* second loop: _read() returns the bytes that are waiting
Loop2Read ==
    /\ pc = "L2"
    /\ rxbuf # <<>>
    /\ rxbuf' = <<>>
    /\ LET l == line \o rxbuf
           n == nread + Len(rxbuf)
       IN IF Loop2Done(l)
          THEN Finish(ReturnLine(l), "none", <<>>, n)
          ELSE /\ line' = l
               /\ nread' = n
               /\ UNCHANGED <<results, isOpen, portOpen, pc, op, cmd, tx0>>
    /\ UNCHANGED <<wire, txbuf, scen>>

\* second loop: nothing arrived within the timeout
Loop2Timeout ==
    /\ pc = "L2"
    /\ rxbuf = <<>>
    /\ Finish(TimeoutInLoop2(line), TimeoutKind, line, nread)
    /\ UNCHANGED <<wire, rxbuf, txbuf, scen>>

(***************************************************************************)
(* device.py: the label lists, the command table and Gascard               *)
(***************************************************************************)
N_labels ==
    << "Mode", "Conc 1", "Conc 2", "Conc 3", "Conc 4", "Conc 5",
       "Current Temperature", "Current Pressure", "Current Humidity" >>

C1_labels ==
    << "Mode", "CoeffA", "CoeffB", "CoeffC", "CoeffD", "Zero gas Corr. Factor",
       "Span gas Corr. Factor", "Zero Pot", "Span Pot", "Sam. Pot", "Ref. Pot" >>

E1_labels ==
    << "Mode", "Zero Cal. Temp.", "Span Cal. Temp.",
       "Pressure Sensor Slope Cor. (m)", "Pressure Sensor Offset Cor. (x)",
       "Press 4th Coeff (c)", "Press 3rd Coeff (d)", "Press 2nd Coeff (e)",
       "Press 1st Coeff (g)", "Zero Temp Correction Value (z)",
       "Span Temp Correction Value (s)" >>

O1_labels ==
    << "Mode", "PWM Voltage Output Slope Corr (m)",
       "PWM Voltage Output Offset Corr (c)", "PWM Voltage Value",
       "PWM Current Output Slope Corr (a)", "PWM Current Output Offset Corr (b)",
       "PWM Current Value" >>

X_labels ==
    << "Mode", "Firmware Version", "Serial Number", "Config Register",
       "Frequency (f)", "Time Constant (t)", "Switches State" >>

U_labels ==
    << "Mode", "Gas Range", "Gas Type", "Background Gas", "Display selection" >>

\* a wire code: its first character and the rest (comm[0], comm[1:])
Code(letter, rest) == [letter |-> letter, rest |-> rest]

commands ==
    ("val" :> Code("N", "")) @@ ("coeff" :> Code("C", "")) @@
    ("environmental" :> Code("E", "")) @@ ("zero temp corr" :> Code("E", "z")) @@
    ("span temp corr" :> Code("E", "s")) @@ ("1st order coeff" :> Code("E", "g")) @@
    ("2nd order coeff" :> Code("E", "e")) @@ ("3rd order coeff" :> Code("E", "d")) @@
    ("4th order coeff" :> Code("E", "c")) @@ ("slope corr" :> Code("E", "m")) @@
    ("offset corr" :> Code("E", "x")) @@ ("output" :> Code("O", "")) @@
    ("pwm volt slope" :> Code("O", "m")) @@ ("pwm volt offset" :> Code("O", "x")) @@
    ("pwm current slope" :> Code("O", "a")) @@ ("pwm current offset" :> Code("O", "b")) @@
    ("volt output range" :> Code("O", "v")) @@ ("settings" :> Code("X", "")) @@
    ("lamp freq" :> Code("X", "f")) @@ ("rc time const" :> Code("X", "t")) @@
    ("reset all" :> Code("X", "d")) @@ ("soft reset" :> Code("X", "q")) @@
    ("user interface" :> Code("U", "")) @@ ("display selection" :> Code("U", "d")) @@
    ("test leds" :> Code("U", "t"))

\* the read part of each mode method: the command it passes to
\* _write_readline, the letter it looks for in the first token, its labels
Handlers ==
    [ get_val       |-> [code |-> "N",  letter |-> "N", labels |-> N_labels],
      get_coeff     |-> [code |-> "C1", letter |-> "C", labels |-> C1_labels],
      environmental |-> [code |-> "E1", letter |-> "E", labels |-> E1_labels],
      output        |-> [code |-> "O1", letter |-> "O", labels |-> O1_labels],
      settings      |-> [code |-> "X",  letter |-> "X", labels |-> X_labels],
      userinterface |-> [code |-> "U",  letter |-> "U", labels |-> U_labels] ]

(***************************************************************************)
(* Python values: a str, a list of str, or None.                           *)
(***************************************************************************)
PStr(s) == [t |-> "str", s |-> s, items |-> <<>>]

PList(items) == [t |-> "list", s |-> "", items |-> items]

PNone == [t |-> "NoneType", s |-> "", items |-> <<>>]

\* str.lower(), on the strings the model passes in
Lower(s) ==
    CASE s = "User Interface" -> "user interface"
      [] s = "Val" -> "val"
      [] s = "Display selection" -> "display selection"
      [] s = "Gas Range" -> "gas range"
      [] s = "Gas Type" -> "gas type"
      [] s = "Conc 1" -> "conc 1"
      [] s = "Time Constant (t)" -> "time constant (t)"
      [] s = "Time Constant" -> "time constant"
      [] s = "Zero Gas Corr Factor" -> "zero gas corr factor"
      [] s = "Span Gas Corr Factor" -> "span gas corr factor"
      [] OTHER -> s

\* the items of repr(list), lower-cased: 'a', 'b'
RECURSIVE ReprItems(_)
ReprItems(items) ==
    IF items = <<>> THEN ""
    ELSE "'" \o Lower(Head(items)) \o "'"
         \o (IF Tail(items) = <<>> THEN "" ELSE ", " \o ReprItems(Tail(items)))

\* Gascard.get / Gascard.set: "if type(comm) != str: comm = str(comm)", then
\* comm.lower()
StrLower(comm) ==
    CASE comm.t = "str" -> Lower(comm.s)
      [] comm.t = "NoneType" -> "none"
      [] comm.t = "list" -> "[" \o ReprItems(comm.items) \o "]"

\* Gascard.get: the mode method the argument is dispatched to, "None" when
\* the lookup in commands fails ("Invalid command", return)
GetRoute(comm) ==
    LET key == StrLower(comm) IN
    IF key \notin DOMAIN commands THEN "None"
    ELSE LET c == commands[key].letter IN
         CASE c = "N" -> "get_val"
           [] c = "C" -> "get_coeff"
           [] c = "E" -> "environmental"
           [] c = "O" -> "output"
           [] c = "X" -> "settings"
           [] c = "U" -> "userinterface"
           [] OTHER -> "None"

\* a dict argument {key: value} of DAQ.set
PDict(key, value) == [t |-> "dict", s |-> "", items |-> <<key, value>>]

\* Gascard.set: "if type(command) != str: command = str(command)", then
\* command.lower()
SetKey(command) ==
    IF command.t = "dict"
    THEN "{'" \o Lower(command.items[1]) \o "': " \o command.items[2] \o "}"
    ELSE StrLower(command)

\* Gascard.set: the mode method the argument is dispatched to, "None" when
\* the lookup fails or the code is no E, O, X or U code
SetRoute(command) ==
    LET key == SetKey(command) IN
    IF key \notin DOMAIN commands THEN "None"
    ELSE LET c == commands[key].letter IN
         CASE c = "E" -> "environmental"
           [] c = "O" -> "output"
           [] c = "X" -> "settings"
           [] c = "U" -> "userinterface"
           [] OTHER -> "None"

(***************************************************************************)
(* Decoding a reply line.                                                  *)
(***************************************************************************)
Whitespace == {" ", "\r", "\n", "\t"}

Digits == {"0", "1", "2", "3", "4", "5", "6", "7", "8", "9"}

\* ret.replace("\x00", "")
StripNul(text) == SelectSeq(text, LAMBDA ch : ch # "NUL")

\* str.split()
RECURSIVE SplitAcc(_, _, _)
SplitAcc(text, cur, acc) ==
    IF text = <<>> THEN (IF cur = <<>> THEN acc ELSE Append(acc, cur))
    ELSE IF Head(text) \in Whitespace
         THEN SplitAcc(Tail(text), <<>>, IF cur = <<>> THEN acc ELSE Append(acc, cur))
         ELSE SplitAcc(Tail(text), Append(cur, Head(text)), acc)

Split(text) == SplitAcc(text, <<>>, <<>>)

\* str.isnumeric(), on ASCII text
IsNumeric(tok) == tok # <<>> /\ \A i \in 1..Len(tok) : tok[i] \in Digits

DigitValue(ch) ==
    CASE ch = "0" -> 0 [] ch = "1" -> 1 [] ch = "2" -> 2 [] ch = "3" -> 3
      [] ch = "4" -> 4 [] ch = "5" -> 5 [] ch = "6" -> 6 [] ch = "7" -> 7
      [] ch = "8" -> 8 [] ch = "9" -> 9

RECURSIVE NumberOf(_)
NumberOf(tok) ==
    IF tok = <<>> THEN 0
    ELSE 10 * NumberOf(SubSeq(tok, 1, Len(tok) - 1)) + DigitValue(tok[Len(tok)])

\* a value of a Field Record: a float or a str
FloatVal(n) == [t |-> "float", n |-> n, s |-> <<>>]

StrVal(tok) == [t |-> "str", n |-> 0, s |-> tok]

\* "if df[index].isnumeric(): df[index] = float(df[index])"
Convert(df) ==
    [i \in 1..Len(df) |-> IF IsNumeric(df[i]) THEN FloatVal(NumberOf(df[i]))
                          ELSE StrVal(df[i])]

Min(a, b) == IF a <= b THEN a ELSE b

\* dict(zip(labels, values))
Zip(labels, values) ==
    LET n == Min(Len(labels), Len(values)) IN
    [l \in {labels[i] : i \in 1..n} |->
        values[CHOOSE i \in 1..n : labels[i] = l]]

\* line 448 and its like: "U" in df[0]
ModeTokenOk(df, letter) == Contains(df[1], <<letter>>)

(***************************************************************************)
(* What _write_readline gives the device layer: a returned text (a reply   *)
(* line, or '' after a timeout with nothing read) or the TypeError of a    *)
(* timeout in its second loop.                                             *)
(***************************************************************************)
Tok1 == <<"1">>

Tok2 == <<"2">>

RECURSIVE JoinTokens(_)
JoinTokens(toks) ==
    IF toks = <<>> THEN <<>>
    ELSE Head(toks) \o (IF Tail(toks) = <<>> THEN <<>> ELSE <<" ">> \o JoinTokens(Tail(toks)))

LineOf(toks) == JoinTokens(toks) \o <<"\r", "\n">>

\* the device's reply in each mode
ReplyU == LineOf(<< <<"U">>, Tok1, <<"C", "O", "2">>, <<"N", "2">>, Tok1 >>)

ReplyN == LineOf(<< <<"N">>, Tok1, Tok2, Tok1, Tok2, Tok1, Tok2, Tok1, Tok2 >>)

ReplyC == LineOf(<< <<"C", "1">>, Tok1, Tok2, Tok1, Tok2, Tok1, Tok2, Tok1, Tok2, Tok1, Tok2 >>)

ReplyE == LineOf(<< <<"E", "1">>, Tok1, Tok2, Tok1, Tok2, Tok1, Tok2, Tok1, Tok2, Tok1, Tok2 >>)

ReplyO == LineOf(<< <<"O", "1">>, Tok1, Tok2, Tok1, Tok2, Tok1, Tok2 >>)

ReplyX == LineOf(<< <<"X">>, Tok1, Tok2, Tok1, Tok2, <<"5">>, Tok1 >>)

\* a UserInterface line cut short
ReplyShortU == LineOf(<< <<"U">>, Tok1 >>)

\* the rest of a UserInterface line whose start was lost
ReplyTail == LineOf(<< <<"C", "O", "2">>, <<"N", "2">>, Tok1 >>)

ReplyTexts ==
    { ReplyU, ReplyN, ReplyC, ReplyE, ReplyO, ReplyX, ReplyShortU, ReplyTail, <<>> }

TransportOutcomes ==
    { [outcome |-> "return", value |-> text] : text \in ReplyTexts }
    \cup { [outcome |-> "TypeError", value |-> <<>>] }

(***************************************************************************)
(* The val argument of Gascard.set and Gascard.span: an int, a float (held *)
(* in hundredths) or a str (held as its characters).                       *)
(***************************************************************************)
VInt(n) == [t |-> "int", n |-> n, chars |-> <<>>]

VFloat(hundredths) == [t |-> "float", n |-> hundredths, chars |-> <<>>]

VStr(chars) == [t |-> "str", n |-> 0, chars |-> chars]

DigitChar(d) ==
    CASE d = 0 -> "0" [] d = 1 -> "1" [] d = 2 -> "2" [] d = 3 -> "3"
      [] d = 4 -> "4" [] d = 5 -> "5" [] d = 6 -> "6" [] d = 7 -> "7"
      [] d = 8 -> "8" [] d = 9 -> "9"

\* str(n) of a natural number
RECURSIVE DigitsOf(_)
DigitsOf(n) ==
    IF n < 10 THEN <<DigitChar(n)>>
    ELSE Append(DigitsOf(n \div 10), DigitChar(n % 10))

\* str(val): the shortest decimal text of a float, the text of a str as it is
StrOf(val) ==
    CASE val.t = "int" -> DigitsOf(val.n)
      [] val.t = "str" -> val.chars
      [] val.t = "float" ->
            LET f == val.n % 100 IN
            DigitsOf(val.n \div 100) \o <<".">> \o
            (IF f % 10 = 0 THEN <<DigitChar(f \div 10)>>
             ELSE <<DigitChar(f \div 10), DigitChar(f % 10)>>)

\* the characters a string is built from, joined into a string
RECURSIVE StrJoin(_)
StrJoin(chars) == IF chars = <<>> THEN "" ELSE Head(chars) \o StrJoin(Tail(chars))

\* float(text) accepts digits with at most one point (the texts met here)
IsFloatText(chars) ==
    /\ \A i \in 1..Len(chars) : chars[i] \in Digits \cup {"."}
    /\ Cardinality({i \in 1..Len(chars) : chars[i] = "."}) <= 1
    /\ \E i \in 1..Len(chars) : chars[i] \in Digits

\* float(text) in hundredths, for texts of at most two decimals
FloatOf(chars) ==
    LET dots == {i \in 1..Len(chars) : chars[i] = "."}
        p    == IF dots = {} THEN Len(chars) + 1 ELSE CHOOSE i \in dots : TRUE
        int  == SubSeq(chars, 1, p - 1)
        frac == SubSeq(chars, p + 1, Len(chars))
        two  == SubSeq(frac \o <<"0", "0">>, 1, 2)
    IN 100 * NumberOf(int) + NumberOf(two)

\* str.upper() of one character
Upper(ch) ==
    CASE ch = "a" -> "A" [] ch = "b" -> "B" [] ch = "c" -> "C" [] ch = "d" -> "D"
      [] ch = "e" -> "E" [] ch = "f" -> "F" [] ch = "g" -> "G" [] ch = "m" -> "M"
      [] ch = "q" -> "Q" [] ch = "s" -> "S" [] ch = "t" -> "T" [] ch = "v" -> "V"
      [] ch = "x" -> "X" [] ch = "z" -> "Z"
      [] OTHER -> ch

\* command[1:] of a wire code
CodeRest(code) == IF code.rest = "" THEN <<>> ELSE <<code.rest>>

(***************************************************************************)
(* The part of a mode method that runs under opt = "y".                    *)
(***************************************************************************)
\* what the method does after its first read: raise, return, or pass the
\* commands cmds to _write_readline one after the other and read again
Raise(exc) == [kind |-> "raise", exc |-> exc, cmds |-> <<>>]

ReturnNone == [kind |-> "return", exc |-> "none", cmds |-> <<>>]

Writes(cmds) == [kind |-> "writes", exc |-> "none", cmds |-> cmds]

\* letter + com[1:]
WriteCmd(letter, com) == letter \o StrJoin(Tail(com))

\* the letters each method accepts as com[0].upper(); environmental compares
\* com[0].upper() with the lower-case "c", which never matches
WriteLetters ==
    [ environmental |-> {"Z", "S", "D", "E", "G", "M", "X"},
      output        |-> {"M", "X", "A", "B", "V"},
      settings      |-> {"T", "Q"},
      userinterface |-> {"D", "T"} ]

LowerLetter(ch) ==
    CHOOSE l \in {"a", "b", "d", "e", "g", "m", "q", "s", "t", "v", "x", "z"} :
        Upper(l) = ch

\* settings, lines 399-409: the lamp frequency is checked against 1..9 after
\* the first read; outside, "Error: ..." is printed and None returned
LampFreq(com) ==
    IF ~IsFloatText(Tail(com)) THEN Raise("ValueError")
    ELSE IF FloatOf(Tail(com)) < 100 \/ FloatOf(Tail(com)) > 900 THEN ReturnNone
    ELSE Writes(<<WriteCmd("s", com), WriteCmd("f", com)>>)

SetWrites(handler, com) ==
    IF com = <<>> THEN Raise("IndexError")
    ELSE LET c == Upper(com[1]) IN
         IF handler = "settings" /\ c = "F" THEN LampFreq(com)
         ELSE IF handler = "settings" /\ c = "D" THEN Writes(<<"d">>)
         ELSE IF c \in WriteLetters[handler]
              THEN Writes(<<WriteCmd(LowerLetter(c), com)>>)
              ELSE Writes(<<>>)

\* the second read of each method under opt = "y": the command it sends, the
\* letter it looks for, the command it repeats while the letter is missing
Rereads ==
    [ environmental |-> [code |-> "E1", letter |-> "E", retry |-> "E1"],
      output        |-> [code |-> "O1", letter |-> "O", retry |-> "E1"],
      settings      |-> [code |-> "X",  letter |-> "X", retry |-> "X"],
      userinterface |-> [code |-> "X",  letter |-> "X", retry |-> "X"] ]

\* calibrate(com) for a span command, lines 229-237
Calibrate(com) ==
    IF ~IsFloatText(Tail(com)) THEN Raise("ValueError")
    ELSE IF FloatOf(Tail(com)) < 50 \/ FloatOf(Tail(com)) > 120 THEN ReturnNone
    ELSE Writes(<<WriteCmd("s", com)>>)

(***************************************************************************)
(* The calls made on the device layer.                                     *)
(***************************************************************************)
\* the arguments Gascard.get is called with
GetInputs ==
    { PStr("val"), PStr("Val"), PStr("coeff"), PStr("environmental"),
      PStr("output"), PStr("settings"), PStr("user interface"),
      PStr("Display selection"), PStr("Gas Type"), PStr("Time Constant"),
      PStr(""), PNone, PList(<<>>),
      PList(<<"Gas Range", "Gas Type", "Display selection">>),
      PList(<<"Gas Range", "Conc 1">>), PList(<<"val">>) }

\* the arguments Gascard.set is called with; the dict is what DAQ.span passes
SetInputs ==
    { [command |-> PStr("lamp freq"), val |-> VInt(5)],
      [command |-> PStr("lamp freq"), val |-> VInt(10)],
      [command |-> PStr("lamp freq"), val |-> VInt(0)],
      [command |-> PStr("rc time const"), val |-> VInt(1)],
      [command |-> PStr("Time Constant"), val |-> VInt(5)],
      [command |-> PStr("display selection"), val |-> VInt(1)],
      [command |-> PStr("settings"), val |-> VInt(0)],
      [command |-> PStr("Gas Type"), val |-> VInt(1)],
      [command |-> PStr("val"), val |-> VInt(0)],
      [command |-> PDict("Span Gas Corr Factor", "1.21"), val |-> VInt(0)] }

\* the fractions Gascard.span is called with, as float and as str
SpanFractions == {49, 50, 120, 121}

SpanInputs ==
    { VFloat(h) : h \in SpanFractions } \cup { VStr(StrOf(VFloat(h))) : h \in SpanFractions }

\* the ports new_device is called with
PortChars(port) ==
    CASE port = "/dev/ttyUSB0" ->
            <<"/", "d", "e", "v", "/", "t", "t", "y", "U", "S", "B", "0">>
      [] port = "COM3" -> <<"C", "O", "M", "3">>

NewPorts == {"/dev/ttyUSB0", "COM3"}

\* no set came just before
NoSet == [command |-> PNone, val |-> VInt(0)]

NoDevCall ==
    [op |-> "none", comm |-> PNone, val |-> VInt(0), handler |-> "None",
     com |-> <<>>, opt |-> "n", phase |-> "idle", writes |-> <<>>,
     after |-> NoSet]

DevCall(o, comm, val, handler, com, opt, phase) ==
    [op |-> o, comm |-> comm, val |-> val, handler |-> handler,
     com |-> com, opt |-> opt, phase |-> phase, writes |-> <<>>,
     after |-> NoSet]

\* self._df_format = None: no label list
NoFormat == <<>>

DInit ==
    /\ df_format = NoFormat
    /\ dpc = "idle"
    /\ dcall = NoDevCall
    /\ dreads = <<>>
    /\ dsent = <<>>
    /\ dlog = <<>>

\* the record kept of a finished call
\* no _write_readline has ended
NoReply == [outcome |-> "none", value |-> <<>>]

\* reads are the commands it passed to _write_readline, last what the last
\* _write_readline gave it, sent what went out on the line
DevResult(call, outcome, value, reads, last) ==
    [op |-> call.op, comm |-> call.comm, val |-> call.val, outcome |-> outcome,
     value |-> value, reads |-> reads, last |-> last, sent |-> dsent,
     after |-> call.after]

\* the log keeps the outcome of the last call
Logged(result) == <<result>>

\* a call that ends before it reaches the transport
DevDone(call, outcome, value) ==
    /\ dlog' = Logged(DevResult(call, outcome, value, <<>>, NoReply))
    /\ UNCHANGED <<df_format, dpc, dcall, dreads, dsent>>

DevFinish(o, outcome, value) ==
    /\ dlog' = Logged(DevResult(dcall, outcome, value, dreads, o))
    /\ dpc' = "idle"
    /\ dcall' = NoDevCall
    /\ dreads' = <<>>
    /\ dsent' = <<>>
    /\ UNCHANGED df_format

\* await self._device._write_readline(command): the call is handed to the
\* transport
Exchange(command) ==
    /\ dreads' = Append(dreads, command)
    /\ dsent' = UnawaitedWrite(dsent, command)

\* the set call that ended just before, if the last call was a set
Preceding ==
    IF dlog # <<>> /\ dlog[1].op = "set"
    THEN [command |-> dlog[1].comm, val |-> dlog[1].val]
    ELSE NoSet

\* Gascard.get(comm) up to its first _write_readline
DevGet ==
    /\ dpc = "idle"
    /\ \E comm \in GetInputs :
          LET h == GetRoute(comm)
              call == [DevCall("get", comm, VInt(0), h, <<>>, "n", "read")
                          EXCEPT !.after = Preceding]
          IN IF h = "None"
             THEN DevDone(call, "return", PNone)
             ELSE /\ df_format' = Handlers[h].labels
                  /\ dcall' = call
                  /\ Exchange(Handlers[h].code)
                  /\ dpc' = "await"
                  /\ UNCHANGED dlog

\* Gascard.set(command, val) up to its first _write_readline: the mode method
\* is called with command[1:] + str(val) and opt = "y"
DevSet ==
    /\ dpc = "idle"
    /\ \E inp \in SetInputs :
          LET h == SetRoute(inp.command)
              com == IF h = "None" THEN <<>>
                     ELSE CodeRest(commands[SetKey(inp.command)]) \o StrOf(inp.val)
              call == DevCall("set", inp.command, inp.val, h, com, "y", "read")
          IN IF h = "None"
             THEN DevDone(call, "return", PNone)
             ELSE /\ df_format' = Handlers[h].labels
                  /\ dcall' = call
                  /\ Exchange(Handlers[h].code)
                  /\ dpc' = "await"
                  /\ UNCHANGED dlog

\* Gascard.span(val): calibrate("s" + val), which str + float cannot build
DevSpan ==
    /\ dpc = "idle"
    /\ \E val \in SpanInputs :
          LET com == <<"s">> \o StrOf(val)
              call == DevCall("span", PNone, val, "calibrate", com, "n", "write")
              c == Calibrate(com)
          IN IF val.t # "str" THEN DevDone(call, "TypeError", PNone)
             ELSE IF c.kind = "raise" THEN DevDone(call, c.exc, PNone)
             ELSE IF c.kind = "return" THEN DevDone(call, "return", PNone)
             ELSE /\ dcall' = call
                  /\ Exchange(c.cmds[1])
                  /\ dpc' = "await"
                  /\ UNCHANGED <<df_format, dlog>>

\* new_device(port) up to its first _write_readline; device is bound only
\* when the port starts with "/dev/"
DevNew ==
    /\ dpc = "idle"
    /\ \E port \in NewPorts :
          LET call == DevCall("new_device", PStr(port), VInt(0), "new_device",
                              <<>>, "n", "probe")
          IN IF ~StartsWith(PortChars(port), <<"/", "d", "e", "v", "/">>)
             THEN DevDone(call, "UnboundLocalError", PNone)
             ELSE /\ dcall' = call
                  /\ Exchange("U")
                  /\ dpc' = "await"
                  /\ UNCHANGED <<df_format, dlog>>

\* the Field Record a mode method returns: dict(zip(self._df_format, df))
\* after the numeric tokens are made floats
FieldRecord(labels, df) == [t |-> "dict", d |-> Zip(labels, Convert(df))]

\* new_device, lines 134 and 141: dev_info is dict(zip(U_labels, tokens)) when
\* the first reply is a UserInterface line, and the bare token list when a
\* later one is; the tokens stay strings
DevInfo(df, first) ==
    IF first THEN [t |-> "dict", d |-> Zip(U_labels, [i \in 1..Len(df) |-> StrVal(df[i])])]
    ELSE [t |-> "list", d |-> df]

\* the next step of a mode method under opt = "y" once its writes are done
NextWrite(o) ==
    IF dcall.writes # <<>>
    THEN /\ Exchange(Head(dcall.writes))
         /\ dcall' = [dcall EXCEPT !.writes = Tail(dcall.writes)]
         /\ UNCHANGED <<df_format, dpc, dlog>>
    ELSE IF dcall.op = "span" THEN DevFinish(o, "return", PNone)
    ELSE /\ Exchange(Rereads[dcall.handler].code)
         /\ dcall' = [dcall EXCEPT !.phase = "reread"]
         /\ UNCHANGED <<df_format, dpc, dlog>>

\* the first read succeeded and opt is "y": the method checks com and writes
AfterRead(o) ==
    LET w == SetWrites(dcall.handler, dcall.com) IN
    IF w.kind = "raise" THEN DevFinish(o, w.exc, PNone)
    ELSE IF w.kind = "return" THEN DevFinish(o, "return", PNone)
    ELSE IF w.cmds # <<>>
         THEN /\ Exchange(Head(w.cmds))
              /\ dcall' = [dcall EXCEPT !.phase = "write", !.writes = Tail(w.cmds)]
              /\ UNCHANGED <<df_format, dpc, dlog>>
         ELSE /\ Exchange(Rereads[dcall.handler].code)
              /\ dcall' = [dcall EXCEPT !.phase = "reread"]
              /\ UNCHANGED <<df_format, dpc, dlog>>

\* the mode method asks again: the reply's first token lacks its letter
Retry(command) ==
    /\ Len(dreads) < MaxReads
    /\ Exchange(command)
    /\ UNCHANGED <<df_format, dpc, dcall, dlog>>

\* _write_readline ends and the caller goes on.  A mode method fails on an
\* empty reply (df[0]), asks again while the letter is not in the first
\* token, and else returns dict(zip(self._df_format, df)) or, under
\* opt = "y", goes on to its writes and its second read
DevReply ==
    /\ dpc = "await"
    /\ \E o \in TransportOutcomes :
          LET df == Split(StripNul(o.value)) IN
          IF o.outcome # "return" THEN DevFinish(o, o.outcome, PNone)
          ELSE CASE dcall.phase = "read" ->
                     LET hd == Handlers[dcall.handler] IN
                     IF df = <<>> THEN DevFinish(o, "IndexError", PNone)
                     ELSE IF ~ModeTokenOk(df, hd.letter) THEN Retry(hd.code)
                     ELSE IF dcall.opt = "y" THEN AfterRead(o)
                     ELSE DevFinish(o, "return", FieldRecord(df_format, df))
                 [] dcall.phase = "write" -> NextWrite(o)
                 [] dcall.phase = "reread" ->
                     LET rr == Rereads[dcall.handler] IN
                     IF df = <<>> THEN DevFinish(o, "IndexError", PNone)
                     ELSE IF ~ModeTokenOk(df, rr.letter) THEN Retry(rr.retry)
                     ELSE DevFinish(o, "return", FieldRecord(df_format, df))
                 [] dcall.phase \in {"probe", "reprobe"} ->
                     IF df = <<>> THEN DevFinish(o, "IndexError", PNone)
                     ELSE IF ~ModeTokenOk(df, "U")
                          THEN /\ Len(dreads) < MaxReads
                               /\ Exchange("U")
                               /\ dcall' = [dcall EXCEPT !.phase = "reprobe"]
                               /\ UNCHANGED <<df_format, dpc, dlog>>
                     ELSE DevFinish(o, "return",
                             [t |-> "Gascard",
                              dev_info |-> DevInfo(df, dcall.phase = "probe")])

(***************************************************************************)
(* daq.py: DAQ, the name-keyed registry of Gascard handles                 *)
(***************************************************************************)
Names == {"A", "B", "AB"}

Handles == {"h1", "h2"}

Ports == {"/dev/ttyUSB0"}

\* a Python dict in insertion order: a sequence of <<key, value>> pairs
Keys(d) == [i \in 1..Len(d) |-> d[i][1]]

HasKey(d, k) == \E i \in 1..Len(d) : d[i][1] = k

Lookup(d, k) == d[CHOOSE i \in 1..Len(d) : d[i][1] = k][2]

\* dict.update({k: v})
Update(d, k, v) ==
    IF HasKey(d, k)
    THEN [i \in 1..Len(d) |-> IF d[i][1] = k THEN <<k, v>> ELSE d[i]]
    ELSE Append(d, <<k, v>>)

\* add_device: the entries of devs are taken in order; a port string goes to
\* device.Gascard.new_device, which the Gascard class does not have
\* (AttributeError), a Gascard is adopted under the name
RECURSIVE AddAll(_, _)
AddAll(dl, devs) ==
    IF devs = <<>> THEN [dev_list |-> dl, outcome |-> "return"]
    ELSE LET name == Head(devs)[1]
             item == Head(devs)[2]
         IN IF item \in Ports THEN [dev_list |-> dl, outcome |-> "AttributeError"]
            ELSE AddAll(Update(dl, name, item), Tail(devs))

\* the dicts add_device is called with: one or two names, each with a port
\* or a handle
AddInputs ==
    { <<p>> : p \in {"A", "B"} \X (Handles \cup Ports) }
    \cup { <<p>> : p \in {"AB"} \X {"h2"} }
    \cup { <<p, q>> : p \in {"A"} \X (Handles \cup Ports),
                      q \in {"B"} \X (Handles \cup Ports) }

\* the record kept of the last finished DAQ call: the call, how it ended,
\* what it returned, its tasks, and _dev_list before it
NoResult ==
    [op |-> "none", arg |-> PNone, id |-> PNone, outcome |-> "none", ret |-> <<>>,
     tasks |-> <<>>, before |-> <<>>]

\* DAQ.get line 146: a str val becomes [val]
ValList(val) == IF val.t = "str" /\ val.s # "" THEN PList(<<val.s>>) ELSE val

\* "if not id": None, an empty list and an empty str are falsy
Falsy(x) ==
    \/ x.t = "NoneType"
    \/ x.t = "list" /\ x.items = <<>>
    \/ x.t = "str" /\ x.s = ""

\* the characters of a device name given as a str, as "for i in id" yields
CharsOf(s) ==
    CASE s = "A" -> <<"A">>
      [] s = "B" -> <<"B">>
      [] s = "AB" -> <<"A", "B">>

\* the names DAQ.get / DAQ.set start a task for, in order
Targets(dl, id) ==
    IF Falsy(id) THEN Keys(dl)
    ELSE IF id.t = "str" THEN CharsOf(id.s)
    ELSE id.items

\* what update_dict_get does for one device: KeyError on an unknown name;
\* Gascard.get returning None makes vals.update raise AttributeError; a
\* mode read succeeds on a device that answers, fails on the '' of a
\* timeout (df[0] of an empty list) and on a transport that was closed
GetTask(dl, hl, name, val) ==
    IF ~HasKey(dl, name) THEN [exc |-> "KeyError", stored |-> FALSE]
    ELSE IF GetRoute(val) = "None" THEN [exc |-> "AttributeError", stored |-> FALSE]
    ELSE IF hl[Lookup(dl, name)] = "closed"
         THEN [exc |-> "ClosedResourceError", stored |-> FALSE]
    ELSE IF hl[Lookup(dl, name)] = "timeout" THEN [exc |-> "IndexError", stored |-> FALSE]
    ELSE [exc |-> "none", stored |-> TRUE,
          value |-> [t |-> "dict", stamped |-> TRUE]]

\* what update_dict_set does for one device: the value Gascard.set returns
\* is stored under the name, None included
SetTask(dl, hl, name, command) ==
    IF ~HasKey(dl, name) THEN [exc |-> "KeyError", stored |-> FALSE]
    ELSE IF SetRoute(command) = "None"
         THEN [exc |-> "none", stored |-> TRUE, value |-> [t |-> "NoneType", stamped |-> FALSE]]
    ELSE IF hl[Lookup(dl, name)] = "closed"
         THEN [exc |-> "ClosedResourceError", stored |-> FALSE]
    ELSE IF hl[Lookup(dl, name)] = "timeout" THEN [exc |-> "IndexError", stored |-> FALSE]
    ELSE [exc |-> "none", stored |-> TRUE,
          value |-> [t |-> "dict", stamped |-> FALSE]]

GetVals == { PNone, PStr("Gas Type"), PList(<<"Gas Range", "Gas Type">>) }

SetCommands == { PDict("Time_Constant", "1"), PStr("settings") }

IdInputs ==
    { PNone, PList(<<>>), PList(<<"A">>), PList(<<"A", "B">>), PList(<<"B", "A">>),
      PList(<<"A", "A">>), PStr("B"), PStr("AB") }

\* the ids DAQ.zero, DAQ.span and DAQ.time_const are called with
BroadcastIds ==
    { PNone, PList(<<>>), PList(<<"A">>), PList(<<"B", "A">>), PStr("B") }

NoCall == [op |-> "none", arg |-> PNone, id |-> PNone]

RInit ==
    /\ dev_list = <<>>
    /\ health \in { hl \in [Handles -> {"healthy", "timeout"}] : hl["h1"] = "healthy" }
    /\ rcall = NoCall
    /\ tasks = <<>>
    /\ ret_dict = <<>>
    /\ cancelled = FALSE
    /\ rlast = NoResult

\* no DAQ call has been made
RIdle ==
    /\ dev_list = <<>>
    /\ health = [h \in Handles |-> "healthy"]
    /\ rcall = NoCall
    /\ tasks = <<>>
    /\ ret_dict = <<>>
    /\ cancelled = FALSE
    /\ rlast = NoResult

\* await Daq.add_device(devs)
AddDevice ==
    /\ rcall = NoCall
    /\ \E devs \in AddInputs :
          LET r == AddAll(dev_list, devs) IN
          /\ dev_list' = r.dev_list
          /\ rlast' = [op |-> "add_device", arg |-> devs, id |-> PNone,
                       outcome |-> r.outcome, ret |-> <<>>, tasks |-> <<>>,
                       before |-> dev_list]
    /\ UNCHANGED <<health, rcall, tasks, ret_dict, cancelled>>

\* the tasks start_soon creates, one for each target in order
NewTasks(targets) ==
    [i \in 1..Len(targets) |-> [dev |-> targets[i], state |-> "pending", exc |-> "none"]]

\* Daq.get(val, id) up to the end of the "async with": ret_dict = {}, the
\* tasks are started
DaqGet ==
    /\ rcall = NoCall
    /\ \E val \in GetVals, id \in IdInputs :
          /\ rcall' = [op |-> "get", arg |-> ValList(val), id |-> id]
          /\ tasks' = NewTasks(Targets(dev_list, id))
    /\ ret_dict' = <<>>
    /\ cancelled' = FALSE
    /\ rlast' = NoResult
    /\ UNCHANGED <<dev_list, health>>

\* Daq.set(command, id) up to the end of the "async with"
DaqSet ==
    /\ rcall = NoCall
    /\ \E command \in SetCommands, id \in IdInputs :
          /\ rcall' = [op |-> "set",
                       arg |-> IF command.t = "str" THEN PList(<<command.s>>)
                               ELSE command,
                       id |-> id]
          /\ tasks' = NewTasks(Targets(dev_list, id))
    /\ ret_dict' = <<>>
    /\ cancelled' = FALSE
    /\ rlast' = NoResult
    /\ UNCHANGED <<dev_list, health>>

\* a started task runs: update_dict_get or update_dict_set; an exception
\* cancels the task group
TaskRun ==
    /\ rcall # NoCall
    /\ \E i \in 1..Len(tasks) :
          /\ tasks[i].state = "pending"
          /\ LET r == IF rcall.op = "get"
                      THEN GetTask(dev_list, health, tasks[i].dev, rcall.arg)
                      ELSE SetTask(dev_list, health, tasks[i].dev, rcall.arg)
             IN IF r.stored
                THEN /\ tasks' = [tasks EXCEPT ![i].state = "done"]
                     /\ ret_dict' = Update(ret_dict, tasks[i].dev, r.value)
                     /\ UNCHANGED cancelled
                ELSE /\ tasks' = [tasks EXCEPT ![i].state = "failed", ![i].exc = r.exc]
                     /\ cancelled' = TRUE
                     /\ UNCHANGED ret_dict
    /\ UNCHANGED <<dev_list, health, rcall, rlast>>

\* a task that has not run when the group is cancelled is cancelled
TaskCancelled ==
    /\ rcall # NoCall
    /\ cancelled
    /\ \E i \in 1..Len(tasks) :
          /\ tasks[i].state = "pending"
          /\ tasks' = [tasks EXCEPT ![i].state = "cancelled"]
    /\ UNCHANGED <<dev_list, health, rcall, ret_dict, cancelled, rlast>>

\* the "async with" ends when every task has ended: the group raises the
\* exceptions of its tasks, or the call returns ret_dict
GroupExit ==
    /\ rcall # NoCall
    /\ \A i \in 1..Len(tasks) : tasks[i].state # "pending"
    /\ rlast' =
          [op |-> rcall.op, arg |-> rcall.arg, id |-> rcall.id,
           outcome |-> IF \E i \in 1..Len(tasks) : tasks[i].state = "failed"
                       THEN "ExceptionGroup" ELSE "return",
           ret |-> IF \E i \in 1..Len(tasks) : tasks[i].state = "failed"
                   THEN <<>> ELSE ret_dict,
           tasks |-> tasks, before |-> dev_list]
    /\ rcall' = NoCall
    /\ tasks' = <<>>
    /\ ret_dict' = <<>>
    /\ cancelled' = FALSE
    /\ UNCHANGED <<dev_list, health>>


\* "for n in name": the items of a list, the characters of a str
Iterate(name) == IF name.t = "str" THEN CharsOf(name.s) ELSE name.items

\* a remove_device without the del: the entry stays
KeepEntry(dl, n) == dl

\* "del self._dev_list[n]" for a name that is present
Evict(dl, n) == SelectSeq(dl, LAMBDA e : e[1] # n)

\* remove_device: for each n in order, self._dev_list[n] (KeyError when n
\* is not a key), close of the handle's transport, then the del
RECURSIVE RemoveAll(_, _, _)
RemoveAll(dl, names, closed) ==
    IF names = <<>> THEN [dev_list |-> dl, closed |-> closed, outcome |-> "return"]
    ELSE IF ~HasKey(dl, Head(names))
         THEN [dev_list |-> dl, closed |-> closed, outcome |-> "KeyError"]
    ELSE RemoveAll(Evict(dl, Head(names)), Tail(names),
                   Append(closed, Lookup(dl, Head(names))))

RemoveInputs ==
    { PList(<<"A">>), PList(<<"A", "B">>), PList(<<"A", "A">>), PStr("AB") }

\* SerialDevice.close on each handle of hs
CloseAll(hl, hs) ==
    [h \in Handles |-> IF \E i \in 1..Len(hs) : hs[i] = h THEN "closed" ELSE hl[h]]

\* await Daq.remove_device(name)
RemoveDevice ==
    /\ rcall = NoCall
    /\ \E name \in RemoveInputs :
          LET r == RemoveAll(dev_list, Iterate(name), <<>>) IN
          /\ dev_list' = r.dev_list
          /\ health' = CloseAll(health, r.closed)
          /\ rlast' = [op |-> "remove_device", arg |-> name, id |-> PNone,
                       outcome |-> r.outcome, ret |-> <<>>, tasks |-> <<>>,
                       before |-> dev_list, closed |-> r.closed]
    /\ UNCHANGED <<rcall, tasks, ret_dict, cancelled>>

\* nothing was put on any handle's line
NothingSent == [h \in Handles |-> <<>>]

\* what one Gascard.set(command) of DAQ.zero / DAQ.span puts on the line:
\* nothing when the lookup of the command fails, else the request of the
\* mode record, as _write_readline writes it
SetSent(command) ==
    IF SetRoute(command) = "None" THEN <<>>
    ELSE UnawaitedWrite(<<>>, Handlers[SetRoute(command)].code)

\* the call DAQ.zero / DAQ.span / DAQ.time_const makes on one handle
ZeroCall == [exc |-> "none", sent |-> SetSent(PDict("Zero Gas Corr Factor", ""))]

SpanCall(val) ==
    [exc |-> "none", sent |-> SetSent(PDict("Span Gas Corr Factor", StrJoin(StrOf(val))))]

\* Gascard has no attribute time_const
TimeConstCall == [exc |-> "AttributeError", sent |-> <<>>]

\* "for i in id: await self._dev_list[i].<call>": the targets one after the
\* other, until one raises; touched lists the devices a call was made on
RECURSIVE CallEach(_, _, _, _, _)
CallEach(dl, targets, call, sent, touched) ==
    IF targets = <<>>
    THEN [outcome |-> "return", sent |-> sent, touched |-> touched]
    ELSE IF ~HasKey(dl, Head(targets))
         THEN [outcome |-> "KeyError", sent |-> sent, touched |-> touched]
    ELSE IF call.exc # "none"
         THEN [outcome |-> call.exc, sent |-> sent,
               touched |-> Append(touched, Head(targets))]
    ELSE LET h == Lookup(dl, Head(targets)) IN
         CallEach(dl, Tail(targets), call, [sent EXCEPT ![h] = @ \o call.sent],
                  Append(touched, Head(targets)))

\* the fractions DAQ.span is called with, in hundredths
SpanVals == { VFloat(100), VFloat(130) }

TimeConstVals == { VInt(5) }

Broadcast(o, arg, id, call) ==
    LET r == CallEach(dev_list, Targets(dev_list, id), call, NothingSent, <<>>) IN
    /\ rlast' = [op |-> o, arg |-> arg, id |-> id, outcome |-> r.outcome,
                 ret |-> <<>>, tasks |-> <<>>, before |-> dev_list,
                 sent |-> r.sent, touched |-> r.touched]
    /\ UNCHANGED <<dev_list, health, rcall, tasks, ret_dict, cancelled>>

\* await Daq.zero(id)
DaqZero ==
    /\ rcall = NoCall
    /\ \E id \in BroadcastIds : Broadcast("zero", VInt(0), id, ZeroCall)

\* await Daq.span(val, id)
DaqSpan ==
    /\ rcall = NoCall
    /\ \E val \in SpanVals, id \in BroadcastIds : Broadcast("span", val, id, SpanCall(val))

\* await Daq.time_const(val, id)
DaqTimeConst ==
    /\ rcall = NoCall
    /\ \E val \in TimeConstVals, id \in BroadcastIds :
          Broadcast("time_const", val, id, TimeConstCall)

(***************************************************************************)
(* util.py: find_devices                                                   *)
(***************************************************************************)
\* what glob.glob("/dev/ttyUSB*") may give
GlobResults ==
    { <<>>, <<"/dev/ttyUSB0">>, <<"/dev/ttyUSB0", "/dev/ttyUSB1">> }

\* the ports of GlobResults with a Gascard that answers
Answering == { "/dev/ttyUSB0" }

\* is_gascard_device(port): "device.Gascard.new_device" is looked up in the
\* try; the class has no such attribute, and AttributeError is no
\* ValueError, so it leaves the function
IsGascardDevice(port) == [exc |-> "AttributeError", dev |-> "None"]

\* the task group of find_devices: one update_dict_dev per port; a task
\* that raises ends the group with its exception, a task that returns a
\* device stores it under its port
RECURSIVE FindAll(_, _)
FindAll(ports, devices) ==
    IF ports = <<>> THEN [outcome |-> "return", devices |-> devices]
    ELSE LET r == IsGascardDevice(Head(ports)) IN
         IF r.exc # "none" THEN [outcome |-> "ExceptionGroup", devices |-> <<>>]
         ELSE FindAll(Tail(ports),
                      IF r.dev = "None" THEN devices
                      ELSE Update(devices, Head(ports), r.dev))

\* await util.find_devices()
FindDevices ==
    /\ rcall = NoCall
    /\ \E ports \in GlobResults :
          LET r == FindAll(ports, <<>>) IN
          rlast' = [op |-> "find_devices", arg |-> ports, id |-> PNone,
                    outcome |-> r.outcome, ret |-> r.devices, tasks |-> <<>>,
                    before |-> dev_list]
    /\ UNCHANGED <<dev_list, health, rcall, tasks, ret_dict, cancelled>>

(***************************************************************************)
(* daq.py: DAQLogging, the logging loop and its two queues                 *)
(***************************************************************************)
\* the qualities the DAQLogging was made with
Qualities == PList(<<"Gas Type">>)

\* how "await self.Daq.get(self.qualities)" ends: DAQ.get over all
\* registered devices, an ExceptionGroup when a task raises
LogGet(dl, hl) ==
    IF \E i \in 1..Len(Targets(dl, PNone)) :
          GetTask(dl, hl, Targets(dl, PNone)[i], ValList(Qualities)).exc # "none"
    THEN "ExceptionGroup" ELSE "return"

\* the registries logging runs over: an empty one, or one device
RLog ==
    /\ dev_list \in { <<>>, << <<"A", "h1">> >> }
    /\ health = [h \in Handles |-> "healthy"]
    /\ rcall = NoCall
    /\ tasks = <<>>
    /\ ret_dict = <<>>
    /\ cancelled = FALSE
    /\ rlast = NoResult

\* DAQLogging.__init__: no queues yet, no logging started
SStart(calls) ==
    /\ calls_left = calls
    /\ lpc = "off"
    /\ write_async = FALSE
    /\ qin = <<>>
    /\ qout = <<>>
    /\ ldf = 0
    /\ rows = 0
    /\ reps = 0
    /\ persisted = <<>>
    /\ ins = "none"
    /\ fet = "none"
    /\ lout = "none"
    /\ elapsed = 0
    /\ offset = 0
    /\ warned = 0
    /\ nfetch = 0
    /\ others = <<>>

\* a DAQLogging whose start_logging is called once
SIdle == SStart(1)

\* logging has ended, by return or by an exception
Terminated == lpc \in {"done", "crashed"}

Running == lpc \notin {"off", "done", "crashed"}

\* logging ends with an exception
Crash(exc) ==
    /\ lpc' = "crashed"
    /\ lout' = exc

\* the duration logging is started with, in periods
Duration == MaxTime - 1

\* what time.time_ns() is ahead of time.perf_counter_ns(), in periods: the
\* two clocks count from the same instant, or the wall clock from an
\* earlier one
Offsets == { 0, MaxTime + 1 }

\* the thread of a later start_logging, before its first Daq.get
NewThread == [pc |-> "init", n |-> 0]

\* start_logging(write_async, duration, rate): new queues in self.qin and
\* self.qout, and a new thread that begins logging. The first thread is
\* followed step by step; a thread started after it is kept in others and
\* runs with write_async false.
StartLogging ==
    /\ calls_left > 0
    /\ calls_left' = calls_left - 1
    /\ qin' = <<>>
    /\ qout' = <<>>
    /\ IF lpc = "off"
       THEN /\ lpc' = "init"
            /\ write_async' \in BOOLEAN
            /\ offset' \in Offsets
            /\ UNCHANGED others
       ELSE /\ others' = Append(others, NewThread)
            /\ UNCHANGED <<lpc, write_async, offset>>
    /\ UNCHANGED <<ldf, rows, reps, persisted, ins, fet, lout, elapsed, warned, nfetch>>

\* a period of 1/rate goes by while logging runs
Advance ==
    /\ Running
    /\ lpc # "init"
    /\ elapsed < MaxTime
    /\ elapsed' = elapsed + 1
    /\ UNCHANGED <<lpc, write_async, qin, qout, ldf, rows, reps, persisted, ins, fet,
                   lout, offset, warned, nfetch, others, calls_left>>

\* stop_logging: self.qin.put("Stop")
StopLogging ==
    /\ lpc # "off"
    /\ Len(qin) < MaxQueue
    /\ qin' = Append(qin, "Stop")
    /\ UNCHANGED <<lpc, write_async, qout, ldf, rows, reps, persisted, ins, fet, lout,
                   elapsed, offset, warned, nfetch, others, calls_left>>

\* DAQLogging.get / DAQLogging.set: self.qin.put([self.Daq.get, *args]);
\* the caller then waits in self.qout.get()
LogCall ==
    /\ lpc # "off"
    /\ Len(qin) < MaxQueue
    /\ qin' = Append(qin, "list")
    /\ UNCHANGED <<lpc, write_async, qout, ldf, rows, reps, persisted, ins, fet, lout,
                   elapsed, offset, warned, nfetch, others, calls_left>>

\* logging up to the loop: rows = [], the first Daq.get, create_table
InitialGet ==
    /\ lpc = "init"
    /\ IF LogGet(dev_list, health) = "return"
       THEN /\ lpc' = "top"
            /\ UNCHANGED lout
       ELSE Crash(LogGet(dev_list, health))
    /\ ldf' = 0
    /\ rows' = 0
    /\ UNCHANGED <<write_async, qin, qout, reps, persisted, ins, fet, elapsed, offset,
                   warned, nfetch, others, calls_left>>

\* the test of the while, "(perf_counter_ns() - start) / 1e9 <= duration":
\* the body is entered, or the duration has passed and logging returns
LoopTest ==
    /\ lpc = "top"
    /\ IF elapsed <= Duration
       THEN lpc' = "poll" /\ UNCHANGED lout
       ELSE lpc' = "done" /\ lout' = "duration"
    /\ UNCHANGED <<write_async, qin, qout, ldf, rows, reps, persisted, ins, fet,
                   elapsed, offset, warned, nfetch, others, calls_left>>

\* a stop sentinel that goes unnoticed
StopIgnored(comm) == FALSE

\* comm == "Stop"
StopMatches(comm) == comm = "Stop"

\* "isinstance(comm, list) and isinstance(comm[0], function)": for a list
\* the name function is looked up, and it is not defined
IsCallList(comm) == IF comm = "list" THEN "NameError" ELSE "False"

\* "if not self.qin.empty()": one command is taken; "Stop" breaks out of
\* the loop, a list raises, anything else is dropped
Poll ==
    /\ lpc = "poll"
    /\ IF qin = <<>>
       THEN /\ lpc' = "tick"
            /\ UNCHANGED <<qin, lout>>
       ELSE /\ qin' = Tail(qin)
            /\ IF StopMatches(Head(qin))
               THEN lpc' = "done" /\ lout' = "Stop"
               ELSE IF IsCallList(Head(qin)) = "NameError"
                    THEN Crash("NameError")
                    ELSE lpc' = "tick" /\ UNCHANGED lout
    /\ UNCHANGED <<write_async, qout, ldf, rows, reps, persisted, ins, fet, elapsed,
                   offset, warned, nfetch, others, calls_left>>

\* "time.time_ns() / 1e9 - (reps * 1 / rate + start / 1e9) >= 1 / rate":
\* the wall clock now against the monotonic clock at the start
TickDue(e, off, r) == (e + off) - r >= 1

\* a tick that always runs the task group of the asynchronous mode
AlwaysTaskGroup(wa) == TRUE

\* "if write_async:"
UsesTaskGroup(wa) == wa

\* the test of the tick: not due yet, or due; a due tick starts the task
\* group of insert_data(rows) and update_dict_log, or the Daq.get
Tick ==
    /\ lpc = "tick"
    /\ IF TickDue(elapsed, offset, reps) /\ nfetch < MaxTicks
       THEN /\ nfetch' = nfetch + 1
            /\ IF UsesTaskGroup(write_async)
               THEN lpc' = "group" /\ ins' = "pending" /\ fet' = "pending"
               ELSE lpc' = "fetch" /\ UNCHANGED <<ins, fet>>
       ELSE /\ lpc' = "top"
            /\ UNCHANGED <<ins, fet, nfetch>>
    /\ UNCHANGED <<write_async, qin, qout, ldf, rows, reps, persisted, lout, elapsed,
                   offset, warned, others, calls_left>>

RECURSIVE Resync(_, _)

\* a tick counter that is not advanced past missed boundaries
NoResync(r, e) == r

\* "while elapsed / (1 / rate) >= reps + 1: reps += 1; warn": the counter
\* after the loop
Resync(r, e) == IF e >= r + 1 THEN Resync(r + 1, e) ELSE r

\* the end of a tick: reps += 1, then the counter is brought up to the
\* clock with one warning for each further step
EndTick ==
    /\ reps' = Resync(reps + 1, elapsed)
    /\ warned' = warned + (Resync(reps + 1, elapsed) - (reps + 1))

\* write_async false: "self.df = await self.Daq.get(...)" comes back and
\* rows is built from it
FetchDone ==
    /\ lpc = "fetch"
    /\ IF LogGet(dev_list, health) = "return"
       THEN /\ ldf' = nfetch
            /\ rows' = nfetch
            /\ lpc' = "persist"
            /\ UNCHANGED lout
       ELSE /\ Crash(LogGet(dev_list, health))
            /\ UNCHANGED <<ldf, rows>>
    /\ UNCHANGED <<write_async, qin, qout, reps, persisted, ins, fet, elapsed, offset,
                   warned, nfetch, others, calls_left>>

\* write_async false: "await self.insert_data(rows, conn)" comes back or
\* raises; then reps += 1
PersistDone ==
    /\ lpc = "persist"
    /\ \/ /\ persisted' = Append(persisted, rows)
          /\ EndTick
          /\ lpc' = "top"
          /\ UNCHANGED lout
       \/ /\ Crash("PersistError")
          /\ UNCHANGED <<persisted, reps, warned>>
    /\ UNCHANGED <<write_async, qin, qout, ldf, rows, ins, fet, elapsed, offset,
                   nfetch, others, calls_left>>

\* write_async true: the insert_data task writes rows, the batch of the
\* tick before, or raises
GroupInsert ==
    /\ lpc = "group"
    /\ ins = "pending"
    /\ \/ ins' = "done" /\ persisted' = Append(persisted, rows)
       \/ ins' = "failed" /\ UNCHANGED persisted
    /\ UNCHANGED <<lpc, write_async, qin, qout, ldf, rows, reps, fet, lout, elapsed,
                   offset, warned, nfetch, others, calls_left>>

\* write_async true: the update_dict_log task sets self.df
GroupFetch ==
    /\ lpc = "group"
    /\ fet = "pending"
    /\ ins # "failed"
    /\ IF LogGet(dev_list, health) = "return"
       THEN fet' = "done" /\ ldf' = nfetch
       ELSE fet' = "failed" /\ UNCHANGED ldf
    /\ UNCHANGED <<lpc, write_async, qin, qout, rows, reps, persisted, ins, lout,
                   elapsed, offset, warned, nfetch, others, calls_left>>

\* a task that raises cancels the other task of the group
GroupCancel ==
    /\ lpc = "group"
    /\ \/ ins = "failed" /\ fet = "pending" /\ fet' = "cancelled" /\ UNCHANGED ins
       \/ fet = "failed" /\ ins = "pending" /\ ins' = "cancelled" /\ UNCHANGED fet
    /\ UNCHANGED <<lpc, write_async, qin, qout, ldf, rows, reps, persisted, lout,
                   elapsed, offset, warned, nfetch, others, calls_left>>

\* the "async with" of the task group ends: the exception of a task goes
\* up, or rows is built from self.df and reps += 1
LogGroupExit ==
    /\ lpc = "group"
    /\ ins # "pending" /\ fet # "pending"
    /\ IF ins = "failed"
       THEN Crash("PersistError") /\ UNCHANGED <<rows, reps, warned>>
       ELSE IF fet = "failed"
            THEN Crash("ExceptionGroup") /\ UNCHANGED <<rows, reps, warned>>
       ELSE /\ rows' = ldf
            /\ EndTick
            /\ lpc' = "top"
            /\ UNCHANGED lout
    /\ UNCHANGED <<write_async, qin, qout, ldf, persisted, ins, fet, elapsed, offset,
                   nfetch, others, calls_left>>

\* the threads of later start_logging calls that are still in logging
Alive == { i \in DOMAIN others : others[i].pc # "ended" }

\* the batch of the n-th tick of a later thread
OtherBatch(n) == 0 - n

\* a later thread's first Daq.get: self.df is set, or logging ends with
\* the exception
OtherInit ==
    \E i \in DOMAIN others :
        /\ others[i].pc = "init"
        /\ IF LogGet(dev_list, health) = "return"
           THEN /\ others' = [others EXCEPT ![i].pc = "top"]
                /\ ldf' = 0
           ELSE /\ others' = [others EXCEPT ![i].pc = "ended"]
                /\ UNCHANGED ldf
        /\ UNCHANGED <<lpc, write_async, qin, qout, rows, reps, persisted, ins, fet, lout,
                       elapsed, offset, warned, nfetch, calls_left>>

\* a pass of a later thread's while up to its tick test: its duration has
\* passed, or it looks at self.qin, the queue of the latest start_logging
OtherPass ==
    \E i \in DOMAIN others :
        /\ others[i].pc = "top"
        /\ \/ /\ others' = [others EXCEPT ![i].pc = "ended"]
              /\ UNCHANGED qin
           \/ /\ qin = <<>>
              /\ others' = [others EXCEPT ![i].pc = "tick"]
              /\ UNCHANGED qin
           \/ /\ qin # <<>>
              /\ qin' = Tail(qin)
              /\ others' = [others EXCEPT ![i].pc =
                                IF StopMatches(Head(qin)) \/ Head(qin) = "list"
                                THEN "ended" ELSE "tick"]
        /\ UNCHANGED <<lpc, write_async, qout, ldf, rows, reps, persisted, ins, fet, lout,
                       elapsed, offset, warned, nfetch, calls_left>>

\* a later thread's tick: not due, or Daq.get into self.df and
\* insert_data of its rows
OtherTick ==
    \E i \in DOMAIN others :
        /\ others[i].pc = "tick"
        /\ \/ /\ others' = [others EXCEPT ![i].pc = "top"]
              /\ UNCHANGED <<ldf, persisted>>
           \/ /\ others[i].n < MaxTicks - 1
              /\ LogGet(dev_list, health) = "return"
              /\ others' = [others EXCEPT ![i].pc = "top", ![i].n = @ + 1]
              /\ ldf' = OtherBatch(others[i].n + 1)
              /\ persisted' = Append(persisted, OtherBatch(others[i].n + 1))
        /\ UNCHANGED <<lpc, write_async, qin, qout, rows, reps, ins, fet, lout,
                       elapsed, offset, warned, nfetch, calls_left>>
(***************************************************************************)
(* Specifications.                                                         *)
(***************************************************************************)
TransportInit == TInit /\ DInit /\ RIdle /\ SIdle

TNext ==
    \/ Arrive /\ UNCHANGED <<dvars, rvars, svars>>
    \/ Write /\ UNCHANGED <<dvars, rvars, svars>>
    \/ CallReadline /\ UNCHANGED <<dvars, rvars, svars>>
    \/ CallWriteReadline /\ UNCHANGED <<dvars, rvars, svars>>
    \/ Loop1Read /\ UNCHANGED <<dvars, rvars, svars>>
    \/ Loop1Timeout /\ UNCHANGED <<dvars, rvars, svars>>
    \/ Loop2Read /\ UNCHANGED <<dvars, rvars, svars>>
    \/ Loop2Timeout /\ UNCHANGED <<dvars, rvars, svars>>

\* one SerialDevice reading the stream of one device
SpecTransport == TransportInit /\ [][TNext]_vars

DeviceInit == TIdle /\ DInit /\ RIdle /\ SIdle

DNext ==
    \/ DevGet /\ UNCHANGED <<tvars, rvars, svars>>
    \/ DevSet /\ UNCHANGED <<tvars, rvars, svars>>
    \/ DevSpan /\ UNCHANGED <<tvars, rvars, svars>>
    \/ DevNew /\ UNCHANGED <<tvars, rvars, svars>>
    \/ DevReply /\ UNCHANGED <<tvars, rvars, svars>>

\* one Gascard handle, its transport summarised by the outcomes of its calls
SpecDevice == DeviceInit /\ [][DNext]_vars

RegistryInit == TIdle /\ DInit /\ RInit /\ SIdle

RNext ==
    \/ AddDevice /\ UNCHANGED <<tvars, dvars, svars>>
    \/ RemoveDevice /\ UNCHANGED <<tvars, dvars, svars>>
    \/ FindDevices /\ UNCHANGED <<tvars, dvars, svars>>
    \/ DaqZero /\ UNCHANGED <<tvars, dvars, svars>>
    \/ DaqSpan /\ UNCHANGED <<tvars, dvars, svars>>
    \/ DaqTimeConst /\ UNCHANGED <<tvars, dvars, svars>>
    \/ DaqGet /\ UNCHANGED <<tvars, dvars, svars>>
    \/ DaqSet /\ UNCHANGED <<tvars, dvars, svars>>
    \/ TaskRun /\ UNCHANGED <<tvars, dvars, svars>>
    \/ TaskCancelled /\ UNCHANGED <<tvars, dvars, svars>>
    \/ GroupExit /\ UNCHANGED <<tvars, dvars, svars>>

\* one DAQ over handles made beforehand
SpecRegistry == RegistryInit /\ [][RNext]_vars


SchedulerInit == TIdle /\ DInit /\ RLog /\ SIdle

\* the steps of the thread that runs DAQLogging.logging
LoopStep ==
    \/ InitialGet /\ UNCHANGED <<tvars, dvars, rvars>>
    \/ LoopTest /\ UNCHANGED <<tvars, dvars, rvars>>
    \/ Poll /\ UNCHANGED <<tvars, dvars, rvars>>
    \/ Tick /\ UNCHANGED <<tvars, dvars, rvars>>
    \/ FetchDone /\ UNCHANGED <<tvars, dvars, rvars>>
    \/ PersistDone /\ UNCHANGED <<tvars, dvars, rvars>>
    \/ GroupInsert /\ UNCHANGED <<tvars, dvars, rvars>>
    \/ GroupFetch /\ UNCHANGED <<tvars, dvars, rvars>>
    \/ GroupCancel /\ UNCHANGED <<tvars, dvars, rvars>>
    \/ LogGroupExit /\ UNCHANGED <<tvars, dvars, rvars>>

SNext ==
    \/ StartLogging /\ UNCHANGED <<tvars, dvars, rvars>>
    \/ StopLogging /\ UNCHANGED <<tvars, dvars, rvars>>
    \/ LogCall /\ UNCHANGED <<tvars, dvars, rvars>>
    \/ Advance /\ UNCHANGED <<tvars, dvars, rvars>>
    \/ LoopStep

\* one DAQLogging over a DAQ that is not changed meanwhile
SpecScheduler == SchedulerInit /\ [][SNext]_vars

\* the same, where the logging thread keeps running: a step of the loop
\* that stays possible is taken (Daq.get and insert_data come back); the
\* callers of start_logging, stop_logging, get and set, and the passing of
\* the duration, are under no such obligation
SpecSchedulerFair == SchedulerInit /\ [][SNext]_vars /\ WF_vars(LoopStep)

(***************************************************************************)
(* The logging of a DAQLogging whose start_logging is called again.        *)
(***************************************************************************)
RestartInit == TIdle /\ DInit /\ RLog /\ SStart(MaxStarts)

RestartNext ==
    \/ SNext
    \/ OtherInit /\ UNCHANGED <<tvars, dvars, rvars>>
    \/ OtherPass /\ UNCHANGED <<tvars, dvars, rvars>>
    \/ OtherTick /\ UNCHANGED <<tvars, dvars, rvars>>

SpecRestart == RestartInit /\ [][RestartNext]_vars
(***************************************************************************)
(* Properties of the transport.                                            *)
(***************************************************************************)
ReadOps == {"readline", "write_readline"}

CRLF == <<"\r", "\n">>

\* the offset in the stream at which the k-th complete frame starts
RECURSIVE FrameOffset(_)
FrameOffset(k) ==
    IF k = 1
    THEN (IF scen.frag = <<>> THEN 0 ELSE Len(scen.frag) + Len(eol))
    ELSE FrameOffset(k - 1) + Len(scen.frames[k - 1]) + Len(eol)

\* a frame as returned: its text, with or without its terminator
IsFrame(value, f) == value = f \/ value = f \o CRLF

\* C1: on a stream that starts with a truncated fragment, its terminator
\* and then complete frames, the first read_line(), whatever the chunks the
\* bytes are read in, returns exactly the first complete frame (no byte of it
\* lost, nothing else returned), provided the device is not late.
C1_MidStreamResync ==
    ( /\ scen.frag # <<>>
      /\ Len(scen.frames) >= 1
      /\ Len(results) >= 1
      /\ results[1].op = "readline"
      /\ results[1].timeout # "late" )
    => /\ results[1].outcome = "return"
       /\ IsFrame(results[1].value, scen.frames[1])

\* C2: on a stream of two valid frames back to back, whatever the chunks,
\* two successive read_line() calls return the text of the first frame and
\* then the text of the second, each with its terminator stripped.
C2_Framing ==
    ( /\ scen.frag = <<>>
      /\ Len(scen.frames) = 2
      /\ Len(results) >= 2
      /\ results[1].op = "readline" /\ results[1].timeout # "late"
      /\ results[2].op = "readline" /\ results[2].timeout # "late" )
    => /\ results[1].outcome = "return" /\ results[1].value = scen.frames[1]
       /\ results[2].outcome = "return" /\ results[2].value = scen.frames[2]

\* C3: whenever the timeout expires in a read before a terminator has been
\* seen, the bytes accumulated so far are discarded: the result of the call
\* holds none of them.
C3_PartialNeverReturned ==
    \A i \in 1..Len(results) :
        ( /\ results[i].op \in ReadOps
          /\ results[i].timeout # "none"
          /\ ~Contains(results[i].acc, eol) )
        => results[i].value = <<>>

\* C4: a read whose idle wait exceeds the timeout, before or after the frame
\* is aligned, returns; it never ends in an exception.
C4_NeverRaisesOnTimeout ==
    \A i \in 1..Len(results) :
        (results[i].op \in ReadOps /\ results[i].timeout # "none")
        => results[i].outcome = "return"

\* C5: a read_line() during which the stream produces no byte within the
\* timeout returns the empty "no data" result, and when the stream then
\* produces one valid frame in time, the next read_line() returns that frame
\* whole (its text and its terminator, as every read returns a frame).
C5_TimeoutNonCorruption ==
    \A i \in 1..Len(results) :
        ( /\ results[i].op \in ReadOps
          /\ results[i].timeout # "none"
          /\ results[i].nread = 0 )
        => /\ results[i].outcome = "return"
           /\ results[i].value = <<>>
           /\ ( /\ i < Len(results)
                /\ results[i + 1].op \in ReadOps
                /\ results[i + 1].timeout = "none"
                /\ scen.frames # <<>>
                /\ results[i].pos = FrameOffset(Len(scen.frames)) )
              => /\ results[i + 1].outcome = "return"
                 /\ results[i + 1].value
                        = scen.frames[Len(scen.frames)] \o CRLF

\* a timed-out read that took no byte, followed by a read that returned the
\* one frame the stream produced afterwards
C5_Witness ==
    /\ Len(results) >= 2
    /\ results[1].op = "readline"
    /\ results[1].timeout = "late"
    /\ results[1].nread = 0
    /\ results[1].value = <<>>
    /\ Len(scen.frames) = 1
    /\ results[1].pos = FrameOffset(1)
    /\ results[2].op = "readline"
    /\ results[2].timeout = "none"
    /\ results[2].value = scen.frames[1] \o CRLF

\* C6: write_then_read_line(command) puts command and the terminator on the
\* stream exactly once, and has done so before it takes any byte of the
\* reply.
C6_WriteBeforeRead ==
    /\ (op = "write_readline" /\ nread > 0)
          => SubSeq(txbuf, tx0 + 1, Len(txbuf)) = Encode(cmd) \o eol
    /\ \A i \in 1..Len(results) :
          results[i].op = "write_readline"
          => results[i].sent = Encode(results[i].cmd) \o eol

\* C40: when a _readline or _write_readline call has ended, by a return or
\* by an exception, isOpen is False, as the stream is closed.
C40_OpenFlagAgrees ==
    ( /\ pc = "idle"
      /\ results # <<>>
      /\ results[Len(results)].op \in ReadOps )
    => /\ ~portOpen
       /\ ~isOpen
(***************************************************************************)
(* Properties of the Gascard protocol engine.                              *)
(***************************************************************************)
LabelLists == {N_labels, C1_labels, E1_labels, O1_labels, X_labels, U_labels}

\* the field names of the label lists ("Mode" is in every list)
FieldNames == UNION { {l[i] : i \in 2..Len(l)} : l \in LabelLists }

\* the mode a field belongs to: the label list that holds its name
ModeOfField(name) == CHOOSE l \in LabelLists : \E i \in 2..Len(l) : l[i] = name

ModesTouched(items) == { ModeOfField(items[i]) : i \in 1..Len(items) }

\* C10: a Device.get for a list of field names that touches k distinct modes
\* issues exactly k mode reads on the transport, however many fields are
\* named (three UserInterface fields: one read).
C10_ModeBatching ==
    \A i \in 1..Len(dlog) :
        ( /\ dlog[i].op = "get"
          /\ dlog[i].comm.t = "list"
          /\ \A j \in 1..Len(dlog[i].comm.items) : dlog[i].comm.items[j] \in FieldNames )
        => Len(dlog[i].reads) = Cardinality(ModesTouched(dlog[i].comm.items))

\* the set of the elements of a sequence
Range(s) == { s[i] : i \in 1..Len(s) }

\* Gascard.get arguments that name no field: None, '' and []
AbsentFieldNames == { PNone, PStr(""), PList(<<>>) }

\* C11: Device.get with empty or absent field names reads the Normal-mode
\* record and returns it.
C11_DefaultNormalRecord ==
    \A i \in 1..Len(dlog) :
        (dlog[i].op = "get" /\ dlog[i].comm \in AbsentFieldNames)
        => \/ dlog[i].outcome # "return"
           \/ /\ dlog[i].reads # <<>>
              /\ dlog[i].reads[1] = Handlers.get_val.code
              /\ dlog[i].value.t = "dict"
              /\ DOMAIN dlog[i].value.d \subseteq Range(N_labels)

\* a name that has no entry in the commands table
UnknownName(comm) ==
    comm.t = "str" /\ comm.s # "" /\ StrLower(comm) \notin DOMAIN commands

\* C12: Device.get with a field name that has no entry in the code table
\* fails with UnknownFieldError.
C12_UnknownFieldError ==
    \A i \in 1..Len(dlog) :
        (dlog[i].op = "get" /\ UnknownName(dlog[i].comm))
        => dlog[i].outcome = "UnknownFieldError"

\* C13: a mode read whose reply has the wrong leading token fails with
\* ModeMismatchError: the read is never issued a second time within one get,
\* and no get that met such a reply returns a record.
C13_ModeMismatchFails ==
    /\ (dpc = "await" /\ dcall.op = "get") => Len(dreads) = 1
    /\ \A i \in 1..Len(dlog) :
          (dlog[i].op = "get" /\ Len(dlog[i].reads) > 1)
          => dlog[i].outcome = "ModeMismatchError"

\* C14: a reply whose token count differs from the length of the mode's
\* label list is a protocol error: every Field Record a get returns has
\* exactly the labels of its mode as keys.
C14_FrameShape ==
    \A i \in 1..Len(dlog) :
        (dlog[i].op = "get" /\ dlog[i].outcome = "return" /\ dlog[i].value.t = "dict")
        => DOMAIN dlog[i].value.d = Range(Handlers[GetRoute(dlog[i].comm)].labels)

\* the tokens of the last reply line a call was given
LastTokens(r) == Split(StripNul(r.last.value))

\* nothing answered within the timeout: _write_readline came back empty or
\* failed in its second loop
NothingAnswered(r) ==
    \/ r.last.outcome = "TypeError"
    \/ r.last.outcome = "return" /\ r.last.value = <<>>

\* C15: construction against an endpoint that returns no line within the
\* timeout fails with DeviceNotFoundError.
C15_DeviceNotFound ==
    \A i \in 1..Len(dlog) :
        (dlog[i].op = "new_device" /\ NothingAnswered(dlog[i]))
        => dlog[i].outcome = "DeviceNotFoundError"

\* C16: construction against an endpoint whose reply has a leading token
\* other than U fails with UnexpectedModeError after the single probe: the
\* probe is never sent a second time.
C16_UnexpectedModeFailsFast ==
    /\ dcall.op = "new_device" => Len(dreads) <= 1
    /\ \A i \in 1..Len(dlog) :
          (dlog[i].op = "new_device" /\ Len(dlog[i].reads) > 1)
          => dlog[i].outcome = "UnexpectedModeError"

\* C17: on every successful construction the stored device info is the
\* Field Record of the UserInterface labels zipped with the reply's tokens,
\* numeric tokens as numbers.
C17_StoredDeviceInfo ==
    \A i \in 1..Len(dlog) :
        (dlog[i].op = "new_device" /\ dlog[i].outcome = "return")
        => /\ dlog[i].value.dev_info.t = "dict"
           /\ dlog[i].value.dev_info = FieldRecord(U_labels, LastTokens(dlog[i]))

\* the fraction a span call carries, in hundredths
FractionOf(val) == IF val.t = "float" THEN val.n ELSE FloatOf(val.chars)

SpanInRange(val) == FractionOf(val) >= 50 /\ FractionOf(val) <= 120

\* C18: Device.span fails with OutOfRangeError for every fraction below 0.5
\* or above 1.2, and succeeds for every fraction from 0.5 to 1.2 when the
\* transport does not fail.
C18_SpanBounds ==
    \A i \in 1..Len(dlog) :
        dlog[i].op = "span"
        => IF SpanInRange(dlog[i].val)
           THEN dlog[i].last.outcome # "TypeError" => dlog[i].outcome = "return"
           ELSE dlog[i].outcome = "OutOfRangeError"

\* a call that carries an out-of-range value: a span fraction outside
\* 0.5..1.2 (given to Gascard.span, or to Gascard.set in the dict DAQ.span
\* builds) or a lamp frequency outside 1..9
OutOfRangeCall(c) ==
    \/ c.op = "span" /\ ~SpanInRange(c.val)
    \/ c.op = "set" /\ c.comm = PDict("Span Gas Corr Factor", "1.21")
    \/ c.op = "set" /\ c.comm = PStr("lamp freq") /\ (c.val.n < 1 \/ c.val.n > 9)

\* the requests for a mode's record
ModeCodes == { Handlers[h].code : h \in DOMAIN Handlers }

C20_SetNoReadBack ==
    /\ dcall.op = "set" => dpc # "await"
    /\ \A i \in 1..Len(dlog) :
          dlog[i].op = "set" => dlog[i].reads = <<>> /\ dlog[i].value.t # "dict"

\* C21: setting "Time Constant" to 5 and then getting "Time Constant"
\* returns the number 5.
C21_SetThenGet ==
    \A i \in 1..Len(dlog) :
        ( /\ dlog[i].op = "get"
          /\ dlog[i].comm = PStr("Time Constant")
          /\ dlog[i].after = [command |-> PStr("Time Constant"), val |-> VInt(5)] )
        => /\ dlog[i].outcome = "return"
           /\ dlog[i].value.t = "float"
           /\ dlog[i].value.n = 5

\* the mode letter of the label list labels
LetterOf(labels) ==
    Handlers[CHOOSE h \in DOMAIN Handlers : Handlers[h].labels = labels].letter

\* C37: a record returned by get or set has, under "Mode", a token of the
\* mode whose labels are its keys.
C37_RecordModeMatchesLabels ==
    \A i \in 1..Len(dlog) :
        ( /\ dpc = "idle"
          /\ dlog[i].op \in {"get", "set"}
          /\ dlog[i].outcome = "return"
          /\ dlog[i].value.t = "dict" )
        => /\ DOMAIN dlog[i].value.d \subseteq Range(df_format)
           /\ Head(dlog[i].value.d[df_format[1]].s) = LetterOf(df_format)

\* the token a reply of the mode with this letter starts with
ExpectedToken(letter) ==
    CASE letter = "N" -> <<"N">>
      [] letter = "C" -> <<"C", "1">>
      [] letter = "E" -> <<"E", "1">>
      [] letter = "O" -> <<"O", "1">>
      [] letter = "X" -> <<"X">>
      [] letter = "U" -> <<"U">>

PrefixRelated(tok, expected) == IsPrefix(tok, expected) \/ IsPrefix(expected, tok)

\* C36: a get returns a record only for a reply whose first token is the
\* expected token of its mode or in a prefix relation with it; a first
\* token that has the mode's letter elsewhere is not accepted.
C36_ModeTokenMatching ==
    \A i \in 1..Len(dlog) :
        ( /\ dpc = "idle"
          /\ dlog[i].op = "get"
          /\ dlog[i].outcome = "return"
          /\ dlog[i].value.t = "dict" )
        => PrefixRelated(Head(Split(StripNul(dlog[i].last.value))),
                         ExpectedToken(LetterOf(df_format)))

\* C35: the cached mode is UserInterface after construction; a get of mode
\* m hands a mode command to the transport only when the cached mode is
\* not m; and after a get that returned a record of mode m the cached mode
\* is m.
C35_ModeCache ==
    /\ []((dlog = <<>> /\ dpc = "idle") => df_format = U_labels)
    /\ [][ ( /\ dpc = "idle" /\ dpc' = "await"
             /\ dcall'.op = "get"
             /\ df_format = Handlers[dcall'.handler].labels )
           => dreads' = <<>> ]_vars
    /\ [](\A i \in 1..Len(dlog) :
            ( /\ dpc = "idle"
              /\ dlog[i].op = "get"
              /\ dlog[i].outcome = "return"
              /\ dlog[i].value.t = "dict" )
            => df_format = Handlers[GetRoute(dlog[i].comm)].labels)
(***************************************************************************)
(* Properties of the DAQ registry.                                         *)
(***************************************************************************)
TaskOf(r, name) == r.tasks[CHOOSE i \in 1..Len(r.tasks) : r.tasks[i].dev = name]

\* C7: a DAQ.get over the devices A and B, where A answers and B always
\* times out, does not raise: it returns A's record and an error entry for
\* B, and A's task is neither cancelled nor failed.
C7_FanOutIsolation ==
    ( /\ rlast.op = "get"
      /\ Targets(rlast.before, rlast.id) = <<"A", "B">>
      /\ HasKey(rlast.before, "A") /\ HasKey(rlast.before, "B")
      /\ health[Lookup(rlast.before, "A")] = "healthy"
      /\ health[Lookup(rlast.before, "B")] = "timeout" )
    => /\ rlast.outcome = "return"
       /\ HasKey(rlast.ret, "A") /\ Lookup(rlast.ret, "A").t = "dict"
       /\ HasKey(rlast.ret, "B") /\ Lookup(rlast.ret, "B").t # "dict"
       /\ TaskOf(rlast, "A").state = "done"

\* the handle a task works on
HandleOf(task) == Lookup(dev_list, task.dev)

C9_ExclusiveOwnership ==
    \A i, j \in 1..Len(dev_list) :
        dev_list[i][2] = dev_list[j][2] => i = j


\* the names a finished call was aimed at, and whether each is registered
\* once
TargetSet(r) == { Targets(r.before, r.id)[i] : i \in 1..Len(Targets(r.before, r.id)) }

ProperTargets(r) ==
    /\ \A n \in TargetSet(r) : HasKey(r.before, n)
    /\ Len(Targets(r.before, r.id)) = Cardinality(TargetSet(r))

\* C22: DAQ.zero, DAQ.span with a fraction in 0.5..1.2 and DAQ.time_const
\* send exactly one write command to every targeted device and nothing to
\* any other device.
C22_BroadcastWrites ==
    ( /\ rlast.op \in {"zero", "span", "time_const"}
      /\ rlast.op = "span" => rlast.arg.n \in 50..120
      /\ ProperTargets(rlast) )
    => /\ rlast.outcome = "return"
       /\ \A h \in Handles :
             Len(rlast.sent[h]) =
                Cardinality({ n \in TargetSet(rlast) : Lookup(rlast.before, n) = h })

\* C23: add_device under a name that is already registered fails with
\* DuplicateNameError and leaves the registry as it was.
C23_DuplicateName ==
    ( /\ rlast.op = "add_device"
      /\ \A i \in 1..Len(rlast.arg) : rlast.arg[i][2] \in Handles
      /\ \E i \in 1..Len(rlast.arg) : HasKey(rlast.before, rlast.arg[i][1]) )
    => /\ rlast.outcome = "DuplicateNameError"
       /\ dev_list = rlast.before

\* the names of a list are registered and no name comes twice
AllPresentOnce(dl, names) ==
    /\ \A i \in 1..Len(names) : HasKey(dl, names[i])
    /\ \A i, j \in 1..Len(names) : names[i] = names[j] => i = j

\* C24: remove_device with a list of names closes the transport of every
\* named handle and evicts it, and fails (the KeyError of the registry
\* lookup) when a name is not registered, a name that comes twice in the
\* list included.
C24_RemoveClosesAndEvicts ==
    ( rlast.op = "remove_device" /\ rlast.arg.t = "list" )
    => LET names == rlast.arg.items IN
       IF AllPresentOnce(rlast.before, names)
       THEN /\ rlast.outcome = "return"
            /\ rlast.closed = [i \in 1..Len(names) |-> Lookup(rlast.before, names[i])]
            /\ \A i \in 1..Len(names) :
                  /\ ~HasKey(dev_list, names[i])
                  /\ health[Lookup(rlast.before, names[i])] = "closed"
            /\ \A i \in 1..Len(dev_list) :
                  HasKey(rlast.before, dev_list[i][1])
       ELSE rlast.outcome = "KeyError"

\* a name listed twice: the first occurrence is closed and evicted, the
\* second fails
C24_Witness ==
    /\ rlast.op = "remove_device"
    /\ rlast.arg = PList(<<"A", "A">>)
    /\ HasKey(rlast.before, "A")
    /\ rlast.closed = <<Lookup(rlast.before, "A")>>
    /\ rlast.outcome = "KeyError"

\* C25: DAQ.get starts exactly one task for each target device and, when
\* every task succeeds, returns a dict whose keys are exactly the targets:
\* all registered devices without id, the named devices otherwise.
C25_GetKeySet ==
    ( /\ rlast.op = "get"
      /\ \A n \in TargetSet(rlast) : HasKey(rlast.before, n) )
    => /\ \A n \in TargetSet(rlast) :
             Cardinality({ i \in 1..Len(rlast.tasks) : rlast.tasks[i].dev = n }) = 1
       /\ (\A i \in 1..Len(rlast.tasks) : rlast.tasks[i].state = "done")
             => /\ rlast.outcome = "return"
                /\ { Keys(rlast.ret)[i] : i \in 1..Len(rlast.ret) } = TargetSet(rlast)

\* C26: DAQ.get and DAQ.set with one registered device name given as a str
\* start their task for that device and for no other.
C26_StringTarget ==
    ( /\ rlast.op \in {"get", "set"}
      /\ rlast.id.t = "str"
      /\ HasKey(rlast.before, rlast.id.s) )
    => [i \in 1..Len(rlast.tasks) |-> rlast.tasks[i].dev] = <<rlast.id.s>>

\* C31: find_devices returns, and its result holds exactly the candidate
\* ports with a Gascard that answers; a port whose construction fails is
\* left out and does not abort the search.
C31_DiscoveryExcludesFailures ==
    rlast.op = "find_devices"
    => /\ rlast.outcome = "return"
       /\ { Keys(rlast.ret)[i] : i \in 1..Len(rlast.ret) }
             = { rlast.arg[i] : i \in 1..Len(rlast.arg) } \cap Answering

\* C38: DAQ.get, set, zero, span and time_const called with an empty list
\* of device names do nothing on any registered device.
C38_EmptyListTargetsNone ==
    ( /\ rlast.op \in {"get", "set", "zero", "span", "time_const"}
      /\ rlast.id = PList(<<>>) )
    => IF rlast.op \in {"get", "set"}
       THEN rlast.tasks = <<>>
       ELSE rlast.touched = <<>>

(***************************************************************************)
(* Properties of the logging loop.                                         *)
(***************************************************************************)
\* C27: every list command (a callable with its arguments) that the
\* running loop takes from qin is eventually executed and its result put
\* on qout.
C27_CommandServed ==
    (Running /\ qin # <<>> /\ Head(qin) = "list" /\ lpc = "poll") ~> (qout # <<>>)

\* C28: once the loop has taken the stop sentinel it is over and no fetch
\* is in flight or begins afterwards, and after "Stop" is put on qin while
\* the loop runs, the loop eventually ends.
C28_StopTerminates ==
    /\ [](lout = "Stop" => lpc = "done" /\ fet # "pending")
    /\ [][lout = "Stop" => ldf' = ldf /\ fet' = fet]_vars
    /\ ((Running /\ \E i \in 1..Len(qin) : qin[i] = "Stop") ~> Terminated)

\* the loop ended on the sentinel after a tick
C28_Witness ==
    /\ lout = "Stop"
    /\ lpc = "done"
    /\ reps >= 1

\* C29: when logging has returned, because of "Stop" or of the duration,
\* every batch a tick fetched has been written exactly once, in both
\* write modes.
C29_EveryBatchPersisted ==
    lpc = "done"
    => \A b \in 1..ldf :
          Cardinality({ i \in 1..Len(persisted) : persisted[i] = b }) = 1

\* C30: an insert_data that raises does not end the loop, and with
\* write_async it does not cancel the fetch that runs beside it.
C30_PersistFailureTolerated ==
    /\ lout # "PersistError"
    /\ ~(ins = "failed" /\ fet = "cancelled")

\* a tick passes its test and begins to fetch
FetchBegins == lpc = "tick" /\ lpc' \in {"fetch", "group"}

\* C32: the fetch of tick reps + 1 begins only when the time since the
\* start of the loop, measured on the monotonic clock alone, has reached
\* reps + 1 periods; between two boundaries no fetch begins, whatever the
\* wall clock is ahead of the monotonic clock.
C32_TickGating == [][FetchBegins => elapsed >= reps + 1]_vars

\* a tick ends: its counter is advanced
TickEnds == reps' # reps

\* C33: at the end of every tick the elapsed time in periods is below
\* reps + 1; a tick that overran by whole periods has the counter advanced
\* to the boundary reached, with one warning for each period skipped; and a
\* skipped period is never made up by a fetch: the fetches begun are the
\* ticks counted less the periods skipped, and at most one in flight.
C33_PacingResync ==
    /\ [][TickEnds => /\ elapsed' < reps' + 1
                      /\ reps' = (IF elapsed >= reps + 2 THEN elapsed ELSE reps + 1)
                      /\ warned' - warned = reps' - (reps + 1)
                      /\ nfetch' = nfetch]_vars
    /\ [](/\ nfetch <= (reps - warned) + 1
          /\ lpc \in {"top", "poll", "tick"} => nfetch = reps - warned)

\* a tick overran by a whole period or more and its counter was advanced
\* with warnings
C33_Witness ==
    /\ warned >= 1
    /\ reps = elapsed
    /\ lpc = "top"

\* C34: with write_async false the rows of every tick fetched before are
\* written when the fetch of the next tick begins or is in flight, and the
\* insert and the fetch are never run side by side in a task group.
C34_SyncPersistBeforeNextFetch ==
    ~write_async
    => /\ lpc = "fetch" => /\ ldf = nfetch - 1
                           /\ \A b \in 1..ldf : \E i \in 1..Len(persisted) : persisted[i] = b
       /\ lpc # "group"
       /\ ins = "none" /\ fet = "none"

\* in synchronous mode the second fetch is in flight and the first batch
\* is written
C34_Witness ==
    /\ ~write_async
    /\ lpc = "fetch"
    /\ nfetch = 2
    /\ persisted = <<1>>

\* the sampling loops of the DAQLogging that are running
ActiveLoops == (IF Running THEN 1 ELSE 0) + Cardinality(Alive)

\* C39: over every sequence of start_logging and stop_logging calls at
\* most one sampling loop of the DAQLogging is running: a start while a
\* loop runs creates no second loop.
C39_OneLoopAtATime == ActiveLoops <= 1
====
